---- MODULE Spec2Model ----
(***************************************************************************)
(* A model of the langextract extraction pipeline: tokenizer, sentence     *)
(* ranges, sentence-aware chunker, word aligner, multi-pass merge and the  *)
(* annotator that drives them.                                             *)
(*                                                                         *)
(* Texts are sequences of characters.  A character is a one-character      *)
(* string, except that a CJK ideograph is written "U+4E2D": it is one      *)
(* character (one code point) that takes three bytes in UTF-8.  Every      *)
(* position the code computes (regex match offsets, char_indices) is a     *)
(* byte offset into the UTF-8 text, and is modelled as such.               *)
(***************************************************************************)
EXTENDS Integers, Sequences, FiniteSets, TLC

(***************************************************************************)
(* Bounds of the model.                                                    *)
(***************************************************************************)
MaxTextLen == 5
MaxBudget == 3
MaxMergePasses == 2

(***************************************************************************)
(* Option values.                                                          *)
(***************************************************************************)
None == [none |-> TRUE]
Some(x) == [some |-> x]
Ok(v) == [ok |-> v]
Err(e) == [err |-> e]
IsOk(r) == "ok" \in DOMAIN r
IsErr(r) == "err" \in DOMAIN r

(***************************************************************************)
(* Characters.                                                             *)
(***************************************************************************)
CJK == "U+4E2D"
UpperChars == {"A", "D", "H", "R", "T"}
LowerChars ==
    {"a", "b", "c", "d", "e", "h", "i", "k", "l", "m", "n", "o", "r", "s", "t", "u", "w", "z"}
LetterChars == UpperChars \cup LowerChars
DigitChars == {"1"}
AlnumChars == LetterChars \cup DigitChars
CJKChars == {CJK}
WhitespaceChars == {" ", "\n", "\r", "\t"}
SentenceEndChars == {".", "?", "!"}
OtherPunctChars == {",", "/"}
PunctChars == SentenceEndChars \cup OtherPunctChars

\* char::len_utf8
len_utf8(c) == IF c \in CJKChars THEN 3 ELSE 1

\* char::to_lowercase on the characters of the model
to_lowercase_char(c) ==
    CASE c = "A" -> "a" [] c = "D" -> "d" [] c = "H" -> "h" [] c = "R" -> "r"
      [] c = "T" -> "t" [] OTHER -> c

to_lowercase(s) == [k \in DOMAIN s |-> to_lowercase_char(s[k])]

RECURSIVE ByteOff(_, _)
\* the byte offset at which the first n characters of text end
ByteOff(text, n) == IF n = 0 THEN 0 ELSE ByteOff(text, n - 1) + len_utf8(text[n])

\* str::len: the length of a text in bytes
ByteLen(text) == ByteOff(text, Len(text))

\* the number of characters before byte offset b (b is a character boundary)
CharsBefore(text, b) == CHOOSE n \in 0..Len(text) : ByteOff(text, n) = b

\* &text[a..b] with byte offsets a and b
Slice(text, a, b) == SubSeq(text, CharsBefore(text, a) + 1, CharsBefore(text, b))

(***************************************************************************)
(* Tokenizer (tokenizer.rs).                                               *)
(***************************************************************************)
RECURSIVE RunEnd(_, _, _)
\* index of the last character of the longest run of characters of S that
\* starts at character i (1-based); i - 1 when there is no such run
RunEnd(text, i, S) ==
    IF i <= Len(text) /\ text[i] \in S THEN RunEnd(text, i + 1, S) ELSE i - 1

RECURSIVE SlashChainEnd(_, _)
\* (?:/[A-Za-z0-9]+)+ continued greedily after a run that ends at r
SlashChainEnd(text, r) ==
    IF r + 2 <= Len(text) /\ text[r + 1] = "/" /\ text[r + 2] \in AlnumChars
    THEN SlashChainEnd(text, RunEnd(text, r + 2, AlnumChars))
    ELSE r

\* TOKEN_REGEX tried at character i: the alternatives in order, the first
\* that matches wins.  The index of the match's last character; i - 1 when
\* nothing matches at i (whitespace).
TOKEN_REGEX(text, i) ==
    LET a == RunEnd(text, i, AlnumChars)
        chain == SlashChainEnd(text, a)
    IN  IF a >= i /\ chain > a THEN chain
        ELSE IF text[i] \in CJKChars THEN RunEnd(text, i, CJKChars)
        ELSE IF text[i] \in LetterChars THEN RunEnd(text, i, LetterChars)
        ELSE IF text[i] \in DigitChars THEN RunEnd(text, i, DigitChars)
        ELSE IF text[i] \notin WhitespaceChars
             THEN RunEnd(text, i, PunctChars)
        ELSE i - 1

\* SLASH_ABBREV_REGEX.is_match: an unanchored search
SLASH_ABBREV_REGEX(s) ==
    \E i \in DOMAIN s :
        LET a == RunEnd(s, i, AlnumChars) IN a >= i /\ SlashChainEnd(s, a) > a

\* The classification cascade of tokenize; every is_match is unanchored.
ClassifyToken(s) ==
    IF \E k \in DOMAIN s : s[k] \in DigitChars THEN "Number"
    ELSE IF SLASH_ABBREV_REGEX(s) THEN "Acronym"
    ELSE IF \E k \in DOMAIN s : s[k] \in CJKChars THEN "Word"
    ELSE IF \E k \in DOMAIN s : s[k] \in LetterChars THEN "Word"
    ELSE "Punctuation"

RECURSIVE TokenizeFrom(_, _, _, _)
\* the find_iter loop of tokenize: i the character to scan from, previous_end
\* the number of characters before the end of the previous match
TokenizeFrom(text, i, previous_end, acc) ==
    IF i > Len(text) THEN acc
    ELSE LET e == TOKEN_REGEX(text, i) IN
         IF e < i THEN TokenizeFrom(text, i + 1, previous_end, acc)
         ELSE LET gap == SubSeq(text, previous_end + 1, i - 1)
                  token ==
                      [index |-> Len(acc),
                       token_type |-> ClassifyToken(SubSeq(text, i, e)),
                       char_interval |->
                           [start_pos |-> ByteOff(text, i - 1),
                            end_pos |-> ByteOff(text, e)],
                       first_token_after_newline |->
                           Len(acc) > 0
                           /\ \E k \in DOMAIN gap : gap[k] \in {"\n", "\r"}]
              IN  TokenizeFrom(text, e + 1, e, Append(acc, token))

tokenize(text) == [text |-> text, tokens |-> TokenizeFrom(text, 1, 0, <<>>)]

\* the text of token number idx (0-based)
TokenText(text, tokens, idx) ==
    Slice(text, tokens[idx + 1].char_interval.start_pos,
                tokens[idx + 1].char_interval.end_pos)

KNOWN_ABBREVIATIONS ==
    {<<"M", "r", ".">>, <<"M", "r", "s", ".">>, <<"M", "s", ".">>,
     <<"D", "r", ".">>, <<"P", "r", "o", "f", ".">>, <<"S", "t", ".">>}

\* END_OF_SENTENCE_REGEX: the text ends in a sentence terminator
END_OF_SENTENCE_REGEX(s) == Len(s) > 0 /\ s[Len(s)] \in SentenceEndChars

\* a mutation of is_end_of_sentence_token: the abbreviations are not looked up
is_end_of_sentence_token_any_period(text, tokens, current_idx) ==
    END_OF_SENTENCE_REGEX(TokenText(text, tokens, current_idx))

is_end_of_sentence_token(text, tokens, current_idx) ==
    LET token_text == TokenText(text, tokens, current_idx) IN
    IF END_OF_SENTENCE_REGEX(token_text)
    THEN IF current_idx > 0
              /\ (TokenText(text, tokens, current_idx - 1) \o token_text)
                     \in KNOWN_ABBREVIATIONS
         THEN FALSE
         ELSE TRUE
    ELSE FALSE

is_sentence_break_after_newline(text, tokens, current_idx) ==
    IF current_idx + 1 >= Len(tokens) THEN FALSE
    ELSE LET gap_text == Slice(text, tokens[current_idx + 1].char_interval.end_pos,
                                     tokens[current_idx + 2].char_interval.start_pos)
             next_token_text == TokenText(text, tokens, current_idx + 1)
         IN  IF ~(\E k \in DOMAIN gap_text : gap_text[k] = "\n") THEN FALSE
             ELSE Len(next_token_text) > 0 /\ next_token_text[1] \in UpperChars

RECURSIVE SentenceScan(_, _, _)
\* the while loop of find_sentence_range: the end_index of the range
SentenceScan(text, tokens, i) ==
    IF i >= Len(tokens) THEN Len(tokens)
    ELSE IF tokens[i + 1].token_type = "Punctuation"
            /\ is_end_of_sentence_token(text, tokens, i) THEN i + 1
    ELSE IF is_sentence_break_after_newline(text, tokens, i) THEN i + 1
    ELSE SentenceScan(text, tokens, i + 1)

\* Ok(TokenInterval) or the SentenceRangeError
find_sentence_range(text, tokens, start_token_index) ==
    IF start_token_index >= Len(tokens)
    THEN [err |-> "SentenceRangeError"]
    ELSE [start_index |-> start_token_index,
          end_index |-> SentenceScan(text, tokens, start_token_index)]

(***************************************************************************)
(* Chunker (chunking.rs).                                                  *)
(***************************************************************************)
\* get_char_interval: Ok(CharInterval), the error for start >= end, or the
\* panic of indexing tokens past their end
get_char_interval(tokenized_text, token_interval) ==
    IF token_interval.start_index >= token_interval.end_index
    THEN [err |-> "TokenUtilError"]
    ELSE IF token_interval.end_index > Len(tokenized_text.tokens)
    THEN [panic |-> "index out of bounds"]
    ELSE [start_pos |->
              tokenized_text.tokens[token_interval.start_index + 1].char_interval.start_pos,
          end_pos |->
              tokenized_text.tokens[token_interval.end_index].char_interval.end_pos]

\* SentenceIterator::next at position curr_token_pos: the sentence, or None
SentenceIterator_next(tokenized_text, curr_token_pos) ==
    IF curr_token_pos = Len(tokenized_text.tokens) THEN None
    ELSE [start_index |-> curr_token_pos,
          end_index |-> find_sentence_range(tokenized_text.text,
                                            tokenized_text.tokens,
                                            curr_token_pos).end_index]

\* a mutation of tokens_exceed_buffer: measures up to the start of the last
\* token instead of its end
tokens_exceed_buffer_to_last_start(tokenized_text, max_char_buffer, token_interval) ==
    IF token_interval.start_index >= token_interval.end_index THEN FALSE
    ELSE (tokenized_text.tokens[token_interval.end_index].char_interval.start_pos
          - tokenized_text.tokens[token_interval.start_index + 1].char_interval.start_pos)
         > max_char_buffer

\* ChunkIterator::tokens_exceed_buffer
tokens_exceed_buffer(tokenized_text, max_char_buffer, token_interval) ==
    LET char_interval == get_char_interval(tokenized_text, token_interval) IN
    IF IsErr(char_interval) THEN FALSE
    ELSE (char_interval.end_pos - char_interval.start_pos) > max_char_buffer

Interval(s, e) == [start_index |-> s, end_index |-> e]

\* What one call of ChunkIterator::next leaves behind: the chunk returned and
\* the iterator's new state (the position of its sentence iterator and
\* broken_sentence).
Yield(chunk, pos, broken) == [chunk |-> chunk, pos |-> pos, broken_sentence |-> broken]

\* a mutation of the folding loop: the chunk is yielded without looking at the
\* sentences that follow
FoldSentences_never(tt, B, s, e) == Yield(Interval(s, e), e, FALSE)

RECURSIVE FoldSentences(_, _, _, _)
\* the while-let loop over sentence_iter.peek(): curr_chunk = [s, e), the
\* sentence iterator stands at e
FoldSentences(tt, B, s, e) ==
    LET sentence == SentenceIterator_next(tt, e) IN
    IF sentence = None THEN Yield(Interval(s, e), e, FALSE)
    ELSE IF tokens_exceed_buffer(tt, B, Interval(s, sentence.end_index))
         THEN Yield(Interval(s, e), e, FALSE)
         ELSE FoldSentences(tt, B, s, sentence.end_index)

RECURSIVE ExtendByToken(_, _, _, _, _, _, _, _)
\* the for loop over the tokens of the sentence: curr_chunk = [s, curr_end),
\* token_index the token to try next
ExtendByToken(tt, B, broken, s, sentence_end, token_index, curr_end, start_of_new_line) ==
    IF token_index >= sentence_end
    THEN IF broken THEN Yield(Interval(s, curr_end), sentence_end, FALSE)
         ELSE FoldSentences(tt, B, s, curr_end)
    ELSE LET newline == IF tt.tokens[token_index + 1].first_token_after_newline
                        THEN token_index ELSE start_of_new_line
         IN  IF tokens_exceed_buffer(tt, B, Interval(s, token_index + 1))
             THEN LET cut == IF newline # -1 /\ newline > 0 THEN newline ELSE curr_end
                  IN  Yield(Interval(s, cut), cut, TRUE)
             ELSE ExtendByToken(tt, B, broken, s, sentence_end, token_index + 1,
                                token_index + 1, newline)

\* ChunkIterator::next: None, or the chunk and the iterator's next state
ChunkIterator_next(tt, B, pos, broken) ==
    LET sentence == SentenceIterator_next(tt, pos) IN
    IF sentence = None THEN None
    ELSE LET s == sentence.start_index IN
         IF tokens_exceed_buffer(tt, B, Interval(s, s + 1))
         THEN Yield(Interval(s, s + 1), s + 1, s + 1 < sentence.end_index)
         ELSE ExtendByToken(tt, B, broken, s, sentence.end_index, s, s + 1, -1)

(***************************************************************************)
(* Multi-pass merge (annotation.rs).                                       *)
(***************************************************************************)
\* a mutation of extractions_overlap: only asks whether the first interval
\* starts inside the second
extractions_overlap_one_sided(extraction1, extraction2) ==
    IF extraction1.char_interval = None THEN FALSE
    ELSE IF extraction2.char_interval = None THEN FALSE
    ELSE /\ extraction2.char_interval.start_pos <= extraction1.char_interval.start_pos
         /\ extraction1.char_interval.start_pos < extraction2.char_interval.end_pos

\* a mutation of extractions_overlap: intervals that only touch overlap too
extractions_overlap_touching(extraction1, extraction2) ==
    IF extraction1.char_interval = None THEN FALSE
    ELSE IF extraction2.char_interval = None THEN FALSE
    ELSE /\ extraction1.char_interval.start_pos <= extraction2.char_interval.end_pos
         /\ extraction2.char_interval.start_pos <= extraction1.char_interval.end_pos

extractions_overlap(extraction1, extraction2) ==
    IF extraction1.char_interval = None THEN FALSE
    ELSE IF extraction2.char_interval = None THEN FALSE
    ELSE /\ extraction1.char_interval.start_pos < extraction2.char_interval.end_pos
         /\ extraction2.char_interval.start_pos < extraction1.char_interval.end_pos

RECURSIVE MergePass(_, _)
\* the loop over the extractions of one later pass
MergePass(merged_extractions, pass_extractions) ==
    IF pass_extractions = <<>> THEN merged_extractions
    ELSE LET extraction == Head(pass_extractions)
             overlaps ==
                 /\ extraction.char_interval # None
                 /\ \E k \in DOMAIN merged_extractions :
                        /\ merged_extractions[k].char_interval # None
                        /\ extractions_overlap(extraction, merged_extractions[k])
         IN  MergePass(IF overlaps THEN merged_extractions
                       ELSE Append(merged_extractions, extraction),
                       Tail(pass_extractions))

RECURSIVE MergePasses(_, _)
\* the loop over all_extractions[1..]
MergePasses(merged_extractions, later_passes) ==
    IF later_passes = <<>> THEN merged_extractions
    ELSE MergePasses(MergePass(merged_extractions, Head(later_passes)),
                     Tail(later_passes))

merge_non_overlapping_extractions(all_extractions) ==
    IF all_extractions = <<>> THEN <<>>
    ELSE IF Len(all_extractions) = 1 THEN all_extractions[1]
    ELSE MergePasses(all_extractions[1], Tail(all_extractions))

(***************************************************************************)
(* Chunk text (chunking.rs).                                               *)
(***************************************************************************)
\* tokenizer::tokens_text: Ok(text), or the error for an invalid interval
tokens_text(tokenized_text, token_interval) ==
    IF \/ token_interval.start_index >= token_interval.end_index
       \/ token_interval.end_index > Len(tokenized_text.tokens)
    THEN [err |-> "InvalidTokenInterval"]
    ELSE [ok |-> Slice(tokenized_text.text,
                       tokenized_text.tokens[token_interval.start_index + 1].char_interval.start_pos,
                       tokenized_text.tokens[token_interval.end_index].char_interval.end_pos)]

get_token_interval_text(tokenized_text, token_interval) ==
    IF token_interval.start_index >= token_interval.end_index
    THEN [err |-> "TokenUtilError"]
    ELSE LET return_string == tokens_text(tokenized_text, token_interval) IN
         IF IsErr(return_string) THEN [err |-> "TokenUtilError"]
         ELSE IF tokenized_text.text # <<>> /\ return_string.ok = <<>>
              THEN [err |-> "TokenUtilError"]
              ELSE return_string

\* chunk.chunk_text().unwrap_or_default()
chunk_text_or_default(chunk) ==
    LET t == get_token_interval_text(tokenize(chunk.document.text), chunk.token_interval)
    IN  IF IsErr(t) THEN <<>> ELSE t.ok

\* chunk.char_interval(): start_pos.unwrap_or(0) on Ok, 0 on Err
chunk_char_offset(chunk) ==
    LET ci == get_char_interval(tokenize(chunk.document.text), chunk.token_interval)
    IN  IF IsErr(ci) THEN 0 ELSE ci.start_pos

\* a mutation of make_batches_of_textchunk: every batch takes one chunk more
make_batches_of_textchunk_one_more(chunks, batch_length) ==
    [b \in 1..((Len(chunks) + batch_length) \div (batch_length + 1)) |->
        SubSeq(chunks, (b - 1) * (batch_length + 1) + 1,
               IF b * (batch_length + 1) <= Len(chunks)
               THEN b * (batch_length + 1) ELSE Len(chunks))]

\* make_batches_of_textchunk: Vec::chunks(batch_length)
make_batches_of_textchunk(chunks, batch_length) ==
    [b \in 1..((Len(chunks) + batch_length - 1) \div batch_length) |->
        SubSeq(chunks, (b - 1) * batch_length + 1,
               IF b * batch_length <= Len(chunks) THEN b * batch_length ELSE Len(chunks))]

(***************************************************************************)
(* Resolver and word aligner (resolver.rs).                                *)
(*                                                                         *)
(* A parsed document (serde_json::Value) is a record with one field that   *)
(* names its kind.  An object is the sequence of its key/value pairs in    *)
(* the order in which the map iterates.  A key is the sequence of the      *)
(* pieces it is concatenated from, so that format!("{}{}", key, suffix) is *)
(* key \o <<suffix>> and ends_with looks at the last piece.                *)
(*                                                                         *)
(* An input string is modelled by its fence marker ("fence json" for the   *)
(* marker of JSON, "fence yaml" for the marker of YAML, "" when it has     *)
(* none) and its content: blank, malformed in both formats, or a document        *)
(* written in JSON (which a YAML parser reads too) or in block YAML.       *)
(***************************************************************************)
JNull == [null |-> TRUE]
JBool(b) == [bool |-> b]
JNumber(n) == [number |-> n]
\* a number that is no integer, with its digits
JFloat(digits) == [float |-> digits]
JString(s) == [string |-> s]
JArray(items) == [array |-> items]
JObject(pairs) == [object |-> pairs]

Pair(k, v) == [key |-> k, value |-> v]

is_null(v) == "null" \in DOMAIN v
is_number(v) == "number" \in DOMAIN v \/ "float" \in DOMAIN v
is_string(v) == "string" \in DOMAIN v
is_array(v) == "array" \in DOMAIN v
is_object(v) == "object" \in DOMAIN v

\* Value::as_u64
as_u64(v) == IF "number" \in DOMAIN v /\ v.number >= 0 THEN Some(v.number) ELSE None

\* str::ends_with
ends_with(key, suffix) == key # <<>> /\ key[Len(key)] = suffix

\* Map::get and HashMap::get
get(pairs, key) ==
    IF \E i \in DOMAIN pairs : pairs[i].key = key
    THEN Some(pairs[CHOOSE i \in DOMAIN pairs : pairs[i].key = key].value)
    ELSE None

contains_key(pairs, key) == \E i \in DOMAIN pairs : pairs[i].key = key

RECURSIVE NatToString(_)
NatToString(n) ==
    LET digits == <<"0", "1", "2", "3", "4", "5", "6", "7", "8", "9">>
    IN  IF n < 10 THEN <<digits[n + 1]>>
        ELSE Append(NatToString(n \div 10), digits[(n % 10) + 1])

\* Number::to_string
number_to_string(v) ==
    IF "float" \in DOMAIN v THEN v.float
    ELSE IF v.number < 0 THEN <<"-">> \o NatToString(0 - v.number)
    ELSE NatToString(v.number)

\* Resolver::default
DefaultResolver ==
    [fence_output |-> TRUE,
     extraction_index_suffix |-> Some("_index"),
     extraction_attributes_suffix |-> Some("_attributes"),
     format_is_yaml |-> FALSE]

InputString(fence, content) == [fence |-> fence, content |-> content]

JsonDocument(v) == [kind |-> "json", value |-> v]
YamlDocument(v) == [kind |-> "yaml", value |-> v]

\* Resolver::extract_fenced_content: the text between left_key and the next
\* fence marker
extract_fenced_content(self, input_string) ==
    LET left_key == IF self.format_is_yaml THEN "fence yaml" ELSE "fence json"
    IN  IF input_string.fence = left_key THEN Ok(input_string.content) ELSE Err("Parse")

\* serde_yaml::from_str and serde_json::from_str
from_str(format_is_yaml, content) ==
    IF content.kind = "malformed" THEN Err(IF format_is_yaml THEN "Yaml" ELSE "Json")
    ELSE IF content.kind = "blank" THEN (IF format_is_yaml THEN Ok(JNull) ELSE Err("Json"))
    ELSE IF content.kind = "yaml" /\ ~format_is_yaml THEN Err("Json")
    ELSE Ok(content.value)

\* Resolver::extract_and_parse_content
extract_and_parse_content(self, input_string) ==
    IF input_string.fence = "" /\ input_string.content.kind = "blank" THEN Err("Parse")
    ELSE LET content == IF self.fence_output THEN extract_fenced_content(self, input_string)
                        ELSE IF input_string.fence = "" THEN Ok(input_string.content)
                        ELSE Ok([kind |-> "malformed"])
         IN  IF IsErr(content) THEN content
             ELSE from_str(self.format_is_yaml, content.ok)

\* a HashMap<String, JsonValue> into which the pairs were inserted: the pairs
\* in the order hash_order in which the map iterates
hash_map(pairs, hash_order) ==
    LET order == SelectSeq(hash_order, LAMBDA i : i \in DOMAIN pairs)
    IN  [k \in DOMAIN order |-> pairs[order[k]]]

\* the single group built from a top-level array
single_group(array, hash_order) ==
    LET key(index) == IF Len(array) = 1 THEN <<"text">> ELSE <<"text_", ToString(index)>>
    IN  hash_map([i \in DOMAIN array |-> Pair(key(i - 1), array[i])], hash_order)

has_category_fields(first_obj) ==
    \E i \in DOMAIN first_obj :
        /\ ~ends_with(first_obj[i].key, "_attributes")
        /\ first_obj[i].key # <<"extraction_class">>
        /\ first_obj[i].key # <<"extraction_text">>

\* the extraction_map built for one key of an item of the DeepSeek format
extraction_map(self, item_obj, key, value) ==
    LET index_value == IF self.extraction_index_suffix = None THEN None
                       ELSE get(item_obj, key \o <<self.extraction_index_suffix.some>>)
        attr_value == IF self.extraction_attributes_suffix = None THEN None
                      ELSE get(item_obj, key \o <<self.extraction_attributes_suffix.some>>)
    IN  <<Pair(<<"extraction_class">>, JString(key)), Pair(<<"extraction_text">>, value)>>
            \o (IF index_value = None THEN <<>>
                ELSE <<Pair(<<"extraction_text", self.extraction_index_suffix.some>>,
                            index_value.some)>>)
            \o (IF attr_value = None THEN <<>>
                ELSE <<Pair(<<"extraction_text", self.extraction_attributes_suffix.some>>,
                            attr_value.some)>>)

RECURSIVE DeepSeekItem(_, _, _)
\* the groups made of the first j pairs of one item of the DeepSeek format
DeepSeekItem(self, item_obj, j) ==
    IF j = 0 THEN <<>>
    ELSE LET key == item_obj[j].key
             should_skip == \/ ends_with(key, "_attributes")
                            \/ (self.extraction_index_suffix # None
                                   /\ ends_with(key, self.extraction_index_suffix.some))
         IN  DeepSeekItem(self, item_obj, j - 1)
                 \o (IF should_skip THEN <<>>
                     ELSE <<extraction_map(self, item_obj, key, item_obj[j].value)>>)

RECURSIVE DeepSeekItems(_, _, _)
\* the groups made of the first n items: an item that is no object is passed
\* over
DeepSeekItems(self, arr, n) ==
    IF n = 0 THEN <<>>
    ELSE DeepSeekItems(self, arr, n - 1)
             \o (IF is_object(arr[n])
                 THEN DeepSeekItem(self, arr[n].object, Len(arr[n].object))
                 ELSE <<>>)

RECURSIVE CategoryGroups(_, _)
\* the groups made of the first n entries of the nested category format
CategoryGroups(obj, n) ==
    IF n = 0 THEN <<>>
    ELSE LET category == obj[n].key
             value == obj[n].value
             one(item) == <<Pair(<<"extraction_class">>, JString(category)),
                            Pair(<<"extraction_text">>, item)>>
         IN  CategoryGroups(obj, n - 1)
                 \o (IF is_array(value)
                     THEN [k \in DOMAIN value.array |-> one(value.array[k])]
                     ELSE <<one(value)>>)

\* Resolver::string_to_extraction_data; hash_order is the order in which the
\* HashMaps built from a top-level array and from the items that are
\* mappings iterate
string_to_extraction_data(self, input_string, hash_order) ==
    LET parsed == extract_and_parse_content(self, input_string) IN
    IF IsErr(parsed) THEN parsed
    ELSE IF is_array(parsed.ok) THEN Ok(<<single_group(parsed.ok.array, hash_order)>>)
    ELSE IF is_object(parsed.ok)
    THEN LET obj == parsed.ok.object
             extractions == get(obj, <<"extractions">>)
         IN  IF extractions = None THEN Ok(CategoryGroups(obj, Len(obj)))
             ELSE IF ~is_array(extractions.some) THEN Err("Parse")
             ELSE LET arr == extractions.some.array IN
                  IF arr # <<>> /\ is_object(arr[1]) /\ has_category_fields(arr[1].object)
                  THEN Ok(DeepSeekItems(self, arr, Len(arr)))
                  ELSE Ok([k \in DOMAIN arr |->
                              IF is_object(arr[k]) THEN hash_map(arr[k].object, hash_order)
                              ELSE <<Pair(<<"text">>, arr[k])>>])
    ELSE Err("Parse")

\* Resolver::convert_to_text
convert_to_text(value) ==
    IF is_string(value) THEN Ok(value.string)
    ELSE IF is_number(value) THEN Ok(number_to_string(value))
    ELSE IF "bool" \in DOMAIN value
    THEN Ok(IF value.bool THEN <<"t", "r", "u", "e">> ELSE <<"f", "a", "l", "s", "e">>)
    ELSE IF is_null(value) THEN Ok(<<>>)
    ELSE Err("Other")

\* Resolver::get_extraction_index: the index, or the error, and the default
\* counter after the call
get_extraction_index(group, key, index_suffix, default_counter) ==
    LET idx_val == IF index_suffix = None THEN None
                   ELSE get(group, key \o <<index_suffix.some>>)
    IN  IF idx_val # None
        THEN [index |-> IF as_u64(idx_val.some) = None THEN Err("Other")
                        ELSE Ok(as_u64(idx_val.some).some),
              default_counter |-> default_counter]
        ELSE [index |-> Ok(default_counter + 1), default_counter |-> default_counter + 1]

\* Resolver::get_attributes
get_attributes(group, key, attributes_suffix) ==
    LET v == IF attributes_suffix = None THEN None
             ELSE get(group, key \o <<attributes_suffix.some>>)
    IN  IF v = None THEN Ok(None)
        ELSE IF is_object(v.some) \/ is_null(v.some) THEN Ok(Some(v.some))
        ELSE Err("Other")

\* data::Extraction::new of resolver.rs
Extraction(extraction_class, extraction_text, extraction_index, group_index, attributes) ==
    [extraction_class |-> extraction_class,
     extraction_text |-> extraction_text,
     extraction_index |-> extraction_index,
     group_index |-> group_index,
     attributes |-> attributes,
     token_interval |-> None,
     char_interval |-> None,
     alignment_status |-> None]

\* one extraction of a group: convert_to_text, get_extraction_index,
\* get_attributes, Extraction::new and push; acc is the error met so far or
\* the extractions processed and the default counter
push_extraction(self, group, group_index, extraction_class, key, value, acc) ==
    IF IsErr(acc) THEN acc
    ELSE LET text_val == convert_to_text(value)
             idx == get_extraction_index(group, key, self.extraction_index_suffix,
                                         acc.default_index_counter)
             attributes == get_attributes(group, key, self.extraction_attributes_suffix)
         IN  IF IsErr(text_val) THEN text_val
             ELSE IF IsErr(idx.index) THEN idx.index
             ELSE IF IsErr(attributes) THEN attributes
             ELSE [processed |-> Append(acc.processed,
                                        Extraction(extraction_class, text_val.ok, idx.index.ok,
                                                   group_index, attributes.ok)),
                   default_index_counter |-> idx.default_counter]

RECURSIVE LegacyGroup(_, _, _, _, _)
\* the legacy format: the first j keys of the group, index and attributes
\* keys passed over
LegacyGroup(self, group, group_index, j, acc) ==
    IF j = 0 THEN acc
    ELSE LET before == LegacyGroup(self, group, group_index, j - 1, acc)
             key == group[j].key
         IN  IF \/ (self.extraction_index_suffix # None
                        /\ ends_with(key, self.extraction_index_suffix.some))
                \/ (self.extraction_attributes_suffix # None
                        /\ ends_with(key, self.extraction_attributes_suffix.some))
             THEN before
             ELSE push_extraction(self, group, group_index, key, key, group[j].value, before)

\* the body of the loop over the groups
process_group(self, group, group_index, acc) ==
    IF IsErr(acc) THEN acc
    ELSE IF /\ self.extraction_index_suffix # None
            /\ \E i \in DOMAIN group :
                   /\ ends_with(group[i].key, self.extraction_index_suffix.some)
                   /\ ~is_number(group[i].value)
    THEN Err("Other")
    ELSE IF contains_key(group, <<"extraction_class">>) /\ contains_key(group, <<"extraction_text">>)
    THEN LET extraction_class == get(group, <<"extraction_class">>).some IN
         IF ~is_string(extraction_class) THEN Err("Parse")
         ELSE push_extraction(self, group, group_index, extraction_class.string,
                              <<"extraction_text">>, get(group, <<"extraction_text">>).some, acc)
    ELSE LegacyGroup(self, group, group_index, Len(group), acc)

RECURSIVE ProcessGroups(_, _, _)
\* the loop over the first n groups
ProcessGroups(self, extraction_data, n) ==
    IF n = 0 THEN [processed |-> <<>>, default_index_counter |-> 0]
    ELSE process_group(self, extraction_data[n], n - 1,
                       ProcessGroups(self, extraction_data, n - 1))

RECURSIVE sort_by_key(_)
\* a mutation of sort_by_key: the order of processing is kept
sort_by_key_skipped(processed) == processed

\* slice::sort_by_key with the key (extraction_index, group_index): a stable
\* sort
sort_by_key(processed) ==
    IF processed = <<>> THEN <<>>
    ELSE LET n == Len(processed)
             front == sort_by_key(SubSeq(processed, 1, n - 1))
             last == processed[n]
             leq(a, b) == \/ a.extraction_index < b.extraction_index
                          \/ /\ a.extraction_index = b.extraction_index
                             /\ a.group_index <= b.group_index
             keep == {i \in DOMAIN front : leq(front[i], last)}
             at == IF keep = {} THEN 0 ELSE CHOOSE i \in keep : \A j \in keep : j <= i
         IN  SubSeq(front, 1, at) \o <<last>> \o SubSeq(front, at + 1, n - 1)

\* Resolver::extract_ordered_extractions_impl
extract_ordered_extractions_impl(self, extraction_data) ==
    LET acc == ProcessGroups(self, extraction_data, Len(extraction_data))
    IN  IF IsErr(acc) THEN acc ELSE Ok(sort_by_key(acc.processed))

\* Resolver::resolve
resolve(self, input_text, suppress_parse_errors, hash_order) ==
    LET parsed == string_to_extraction_data(self, input_text, hash_order)
    IN  IF IsOk(parsed) THEN extract_ordered_extractions_impl(self, parsed.ok)
        ELSE IF suppress_parse_errors THEN Ok(<<>>)
        ELSE parsed

(***************************************************************************)
(* Prompt renderer (prompting.rs).                                         *)
(***************************************************************************)
\* the entry of one extraction: class -> text and class + suffix -> attributes
example_entry(self, extraction) ==
    JObject(<<Pair(extraction.extraction_class, JString(extraction.extraction_text)),
              Pair(extraction.extraction_class \o <<self.attribute_suffix>>,
                   IF extraction.attributes = None THEN JObject(<<>>)
                   ELSE JObject(extraction.attributes.some))>>)

\* QAPromptGenerator::format_example_as_text: the question and the answer
\* payload, which is the document serialized in the generator's format and
\* fenced when fence_output is set
format_example_as_text(self, example) ==
    LET data_value == JObject(<<Pair(<<"extractions">>,
                           JArray([k \in DOMAIN example.extractions |->
                                      example_entry(self, example.extractions[k])]))>>)
    IN  [question |-> example.text,
         answer |-> IF self.format_type = "YAML"
                    THEN InputString(IF self.fence_output THEN "fence yaml" ELSE "",
                                     YamlDocument(data_value))
                    ELSE InputString(IF self.fence_output THEN "fence json" ELSE "",
                                     JsonDocument(data_value))]

\* A prompt is a sequence of pieces: a literal of the code, the value of a
\* String (a description, a context, a question), or a serialized answer.
Lit(s) == [lit |-> s]
Str(text) == [str |-> text]
Payload(answer) == [payload |-> answer]

RECURSIVE join(_, _)
\* [String]::join
join(lines, sep) ==
    IF lines = <<>> THEN <<>>
    ELSE IF Len(lines) = 1 THEN lines[1]
    ELSE lines[1] \o <<sep>> \o join(Tail(lines), sep)

RECURSIVE concat(_)
concat(lines) == IF lines = <<>> THEN <<>> ELSE Head(lines) \o concat(Tail(lines))

\* QAPromptGenerator::render_with_context
render_with_context(self, question, additional_context) ==
    LET example_text(ex) ==
            LET e == format_example_as_text(self, ex)
            IN  <<Lit(self.question_prefix), Str(e.question), Lit("\n"),
                  Lit(self.answer_prefix), Payload(e.answer), Lit("\n")>>
        lines ==
            <<<<Str(self.template.description), Lit("\n")>>>>
                \o (IF additional_context # None /\ additional_context.some # <<>>
                    THEN <<<<Str(additional_context.some), Lit("\n")>>>> ELSE <<>>)
                \o (IF self.template.examples # <<>>
                    THEN <<<<Lit(self.examples_heading)>>>>
                             \o [k \in DOMAIN self.template.examples |->
                                    example_text(self.template.examples[k])]
                    ELSE <<>>)
                \o <<<<Lit(self.question_prefix), Str(question)>>,
                     <<Lit(self.answer_prefix)>>>>
    IN  join(lines, Lit("\n"))

\* QAPromptGenerator::render
QAPromptGenerator_render(self, question) == render_with_context(self, question, None)

\* the prompt the annotator renders for one chunk of a batch
batch_prompt(self, text_chunk) ==
    QAPromptGenerator_render(self, chunk_text_or_default(text_chunk))

RECURSIVE WhitespaceTokensFrom(_, _, _)
\* resolver::tokenizer::tokenize: maximal runs of non-whitespace characters
WhitespaceTokensFrom(text, i, acc) ==
    IF i > Len(text) THEN acc
    ELSE IF text[i] \in WhitespaceChars THEN WhitespaceTokensFrom(text, i + 1, acc)
    ELSE LET e == RunEnd(text, i, {c \in {text[k] : k \in DOMAIN text} : c \notin WhitespaceChars})
         IN  WhitespaceTokensFrom(text, e + 1,
                 Append(acc, [text |-> SubSeq(text, i, e),
                              char_interval |-> [start_pos |-> ByteOff(text, i - 1),
                                                 end_pos |-> ByteOff(text, e)]]))

whitespace_tokenize(text) == [text |-> text, tokens |-> WhitespaceTokensFrom(text, 1, <<>>)]

\* str::split_whitespace
split_whitespace(text) ==
    LET toks == WhitespaceTokensFrom(text, 1, <<>>) IN [k \in DOMAIN toks |-> toks[k].text]

\* a mutation of find_exact_match: the last start is returned
find_exact_match_last(needle, haystack) ==
    IF needle = <<>> \/ Len(haystack) < Len(needle) THEN -1
    ELSE LET hits == {start \in 0..(Len(haystack) - Len(needle)) :
                          SubSeq(haystack, start + 1, start + Len(needle)) = needle}
         IN  IF hits = {} THEN -1 ELSE CHOOSE h \in hits : \A g \in hits : h >= g

\* WordAligner::find_exact_match: Some(first start) or -1 for None
find_exact_match(needle, haystack) ==
    IF needle = <<>> \/ Len(haystack) < Len(needle) THEN -1
    ELSE LET hits == {start \in 0..(Len(haystack) - Len(needle)) :
                          SubSeq(haystack, start + 1, start + Len(needle)) = needle}
         IN  IF hits = {} THEN -1 ELSE CHOOSE h \in hits : \A g \in hits : h <= g

\* normalize_token: lowercase, and a trailing "s" removed from a token of more
\* than three bytes that does not end in "ss"
normalize_token(tok) ==
    LET s == to_lowercase(tok)
    IN  IF /\ ByteLen(s) > 3
           /\ s[Len(s)] = "s"
           /\ ~(Len(s) >= 2 /\ s[Len(s) - 1] = "s")
        THEN SubSeq(s, 1, Len(s) - 1)
        ELSE s

\* the number of places of tokens that hold token
token_count(tokens, token) == Cardinality({i \in DOMAIN tokens : tokens[i] = token})

RECURSIVE SumOverlap(_, _, _)
\* the sum of min(ext_count, window_count) over the tokens of the set keys
SumOverlap(keys, ext_norm, window_tokens) ==
    IF keys = {} THEN 0
    ELSE LET token == CHOOSE t \in keys : TRUE
             ext_count == token_count(ext_norm, token)
             window_count == token_count(window_tokens, token)
         IN  (IF ext_count <= window_count THEN ext_count ELSE window_count)
                 + SumOverlap(keys \ {token}, ext_norm, window_tokens)

\* WordAligner::calculate_overlap, ext_counts given by the tokens it counts
calculate_overlap(ext_norm, window_tokens) ==
    SumOverlap({ext_norm[i] : i \in DOMAIN ext_norm}, ext_norm, window_tokens)

RECURSIVE FuzzyLoop(_, _, _, _, _, _)
\* the two loops of find_fuzzy_match from (window_size, start_idx) on; best is
\* the best overlap so far (best_ratio * ext_norm.len()) and its span
FuzzyLoop(ext_norm, source_tokens, min_overlap, window_size, start_idx, best) ==
    IF window_size > Len(source_tokens) THEN best
    ELSE IF start_idx > Len(source_tokens) - window_size
    THEN FuzzyLoop(ext_norm, source_tokens, min_overlap, window_size + 1, 0, best)
    ELSE LET window == [k \in 1..window_size |-> normalize_token(source_tokens[start_idx + k])]
             overlap == calculate_overlap(ext_norm, window)
         IN  FuzzyLoop(ext_norm, source_tokens, min_overlap, window_size, start_idx + 1,
                       IF overlap >= min_overlap /\ overlap > best.overlap
                       THEN [overlap |-> overlap,
                             span |-> Some([start_idx |-> start_idx, window_size |-> window_size])]
                       ELSE best)

\* WordAligner::find_fuzzy_match; the threshold is given in hundredths
find_fuzzy_match(ext_tokens, source_tokens, threshold) ==
    LET ext_norm == [k \in DOMAIN ext_tokens |-> normalize_token(ext_tokens[k])]
        min_overlap == (Len(ext_norm) * threshold + 99) \div 100
        best == FuzzyLoop(ext_norm, source_tokens, min_overlap, Len(ext_norm), 0,
                          [overlap |-> 0, span |-> None])
    IN  IF best.overlap * 100 >= threshold * Len(ext_norm) THEN best.span ELSE None

\* WordAligner::create_aligned_extraction
create_aligned_extraction(extraction, start_idx, length, source_tokenized, token_offset, char_offset, status) ==
    [extraction EXCEPT
        !.token_interval = [start_index |-> start_idx + token_offset,
                            end_index |-> start_idx + length + token_offset],
        !.char_interval =
            IF /\ start_idx < Len(source_tokenized.tokens)
               /\ start_idx + length <= Len(source_tokenized.tokens)
            THEN [start_pos |-> char_offset
                      + source_tokenized.tokens[start_idx + 1].char_interval.start_pos,
                  end_pos |-> char_offset
                      + source_tokenized.tokens[start_idx + length].char_interval.end_pos]
            ELSE extraction.char_interval,
        !.alignment_status = status]

\* WordAligner::align_single_extraction
align_single_extraction(extraction, source_tokens, source_tokenized, token_offset, char_offset, enable_fuzzy_alignment, fuzzy_alignment_threshold) ==
    LET split == split_whitespace(extraction.extraction_text)
        ext_tokens == [k \in DOMAIN split |-> to_lowercase(split[k])]
        match_pos == find_exact_match(ext_tokens, source_tokens)
        fuzzy == find_fuzzy_match(ext_tokens, source_tokens, fuzzy_alignment_threshold)
    IN  IF ext_tokens = <<>> THEN extraction
        ELSE IF match_pos # -1
             THEN create_aligned_extraction(extraction, match_pos, Len(ext_tokens),
                      source_tokenized, token_offset, char_offset, Some("MatchExact"))
        ELSE IF enable_fuzzy_alignment /\ fuzzy # None
             THEN create_aligned_extraction(extraction, fuzzy.some.start_idx,
                      fuzzy.some.window_size, source_tokenized, token_offset, char_offset,
                      Some("MatchFuzzy"))
        ELSE extraction

\* Resolver::align -> WordAligner::align_extractions on the single group;
\* char_offset is an Option
align(extractions, source_text, token_offset, char_offset, enable_fuzzy_alignment, fuzzy_alignment_threshold) ==
    LET source_tokenized == whitespace_tokenize(source_text)
        source_tokens == [k \in DOMAIN source_tokenized.tokens |->
                             to_lowercase(source_tokenized.tokens[k].text)]
        char_offset_val == IF char_offset = None THEN 0 ELSE char_offset.some
    IN  [k \in DOMAIN extractions |->
            align_single_extraction(extractions[k], source_tokens, source_tokenized,
                                    token_offset, char_offset_val,
                                    enable_fuzzy_alignment, fuzzy_alignment_threshold)]

\* the conversion of an aligned resolver extraction into a data::Extraction at
\* the end of the chunk loop: attributes and description are passed as None
to_data_extraction(e) ==
    [extraction_class |-> e.extraction_class,
     extraction_text |-> e.extraction_text,
     token_interval |-> e.token_interval,
     char_interval |-> e.char_interval,
     alignment_status |-> e.alignment_status,
     extraction_index |-> e.extraction_index,
     group_index |-> e.group_index,
     description |-> None,
     attributes |-> None]

(***************************************************************************)
(* Documents and the annotator's helpers (data.rs, annotation.rs).         *)
(***************************************************************************)
\* Document::new
Document(text, document_id) == [text |-> text, document_id |-> document_id]

\* the ids Uuid::new_v4 may produce ("doc_" and eight hex digits): two calls
\* may, or may not, produce the same one
GenIds == {"doc_1", "doc_2"}

\* Document::document_id: the ids the call may return; the id returned is
\* stored in the document it is called on
document_id_choices(document) ==
    IF document.document_id = None THEN GenIds ELSE {document.document_id.some}

\* a mutation of is_repeat: restrict_repeats passed as false
is_repeat_unrestricted(visited_ids, document_id) == FALSE

\* document_chunk_iterator: restrict_repeats && visited_ids.contains(&document_id)
is_repeat(visited_ids, document_id) == document_id \in visited_ids

\* AnnotatedDocument::new(Some(id), Some(extractions), Some(text))
AnnotatedDocument(document_id, extractions, text) ==
    [document_id |-> Some(document_id), extractions |-> extractions, text |-> text]


\* the body of the chunk loop after the cursor check: resolve the top output,
\* align against the chunk text, convert (a resolver error yields no
\* extractions).  The maps built from the replies of the annotator's runs
\* hold one key, so they iterate in one order.
chunk_extractions(text_chunk, reply, debug) ==
    LET annotated_chunk_extractions == resolve(DefaultResolver, reply, debug, <<1>>)
        chunk_text == chunk_text_or_default(text_chunk)
        char_offset == chunk_char_offset(text_chunk)
        token_offset == text_chunk.token_interval.start_index
        aligned_extractions ==
            IF IsOk(annotated_chunk_extractions)
            THEN align(annotated_chunk_extractions.ok, chunk_text, token_offset,
                       Some(char_offset), FALSE, 75)
            ELSE <<>>
    IN  [k \in DOMAIN aligned_extractions |-> to_data_extraction(aligned_extractions[k])]

RECURSIVE collect_pass(_, _, _)
\* the loop of annotate_documents_sequential_passes over the documents one
\* pass returned: by_pass is document_extractions_by_pass, texts is
\* document_texts
collect_pass(annotated_docs, by_pass, texts) ==
    IF annotated_docs = <<>> THEN [by_pass |-> by_pass, texts |-> texts]
    ELSE LET d == Head(annotated_docs)
             doc_id == d.document_id.some
             old == IF doc_id \in DOMAIN by_pass THEN by_pass[doc_id] ELSE <<>>
         IN  collect_pass(Tail(annotated_docs),
                 [k \in DOMAIN by_pass \cup {doc_id} |->
                     IF k = doc_id THEN Append(old, d.extractions) ELSE by_pass[k]],
                 [k \in DOMAIN texts \cup {doc_id} |->
                     IF k \in DOMAIN texts THEN texts[k] ELSE d.text])

(***************************************************************************)
(* State.  Three runs are modelled: a ChunkIterator on one tokenized text  *)
(* (SpecChunk), one call of merge_non_overlapping_extractions (SpecMerge)  *)
(* and one call of Annotator::annotate_documents or annotate_text (Spec).  *)
(* The variables of the runs a specification does not follow keep their    *)
(* idle values.                                                            *)
(***************************************************************************)
VARIABLES
    c_text,     \* the TokenizedText the ChunkIterator was built on
    c_budget,   \* max_char_buffer
    c_pos,      \* the position of the iterator's sentence iterator
    c_broken,   \* broken_sentence
    c_chunks,   \* the token intervals of the chunks yielded so far
    c_done,     \* next has returned None
    m_all,      \* all_extractions, the argument of the merge
    m_called,   \* the merge has returned
    m_out,      \* what it returned
    call,       \* the arguments of the annotator call
    pc,         \* where the annotator call stands
    sp,         \* the locals of the running annotate_documents_single_pass
    mp,         \* the locals of annotate_documents_sequential_passes
    result,     \* what the call returned, or the panic that ended it
    hist,       \* what the language model was asked and answered, for the properties
    p_input,    \* the input of a run that calls one function of the pipeline
    p_call      \* the call made on it: the function, its arguments, what it returned

chunkVars == <<c_text, c_budget, c_pos, c_broken, c_chunks, c_done>>
mergeVars == <<m_all, m_called, m_out>>
annVars == <<call, pc, sp, mp, result, hist>>
pureVars == <<p_input, p_call>>
vars == <<chunkVars, mergeVars, annVars, pureVars>>
notChunkVars == <<mergeVars, annVars, pureVars>>
notMergeVars == <<chunkVars, annVars, pureVars>>
notAnnVars == <<chunkVars, mergeVars, pureVars>>
notPureVars == <<chunkVars, mergeVars, annVars>>

ChunkIdle ==
    /\ c_text = tokenize(<<>>)
    /\ c_budget = 1
    /\ c_pos = 0
    /\ c_broken = FALSE
    /\ c_chunks = <<>>
    /\ c_done = TRUE

MergeIdle ==
    /\ m_all = <<>>
    /\ m_called = FALSE
    /\ m_out = <<>>

AnnIdle ==
    /\ call = None
    /\ pc = "idle"
    /\ sp = None
    /\ mp = None
    /\ result = None
    /\ hist = None

PureIdle ==
    /\ p_input = None
    /\ p_call = None

(***************************************************************************)
(* The chunker run on one tokenized text.                                  *)
(***************************************************************************)
ChunkAlphabet == {"a", "A", ".", " ", "\n", CJK}

RECURSIVE TextsUpTo(_, _)
TextsUpTo(alphabet, n) ==
    IF n = 0 THEN {<<>>}
    ELSE LET shorter == TextsUpTo(alphabet, n - 1) IN
         shorter \cup {Append(t, c) : t \in {u \in shorter : Len(u) = n - 1}, c \in alphabet}

\* ChunkIterator::new on any text and any budget
ChunkInit ==
    /\ \E text \in TextsUpTo(ChunkAlphabet, MaxTextLen) : c_text = tokenize(text)
    /\ c_budget \in 1..MaxBudget
    /\ c_pos = 0
    /\ c_broken = FALSE
    /\ c_chunks = <<>>
    /\ c_done = FALSE
    /\ MergeIdle
    /\ AnnIdle
    /\ PureIdle

\* One call of next that returns a chunk.  An iterator that has yielded more
\* chunks than there are tokens is no longer followed.
ChunkYield ==
    /\ ~c_done
    /\ Len(c_chunks) <= Len(c_text.tokens)
    /\ LET r == ChunkIterator_next(c_text, c_budget, c_pos, c_broken) IN
       /\ r # None
       /\ c_chunks' = Append(c_chunks, r.chunk)
       /\ c_pos' = r.pos
       /\ c_broken' = r.broken_sentence
    /\ UNCHANGED <<c_text, c_budget, c_done, notChunkVars>>

\* The call of next that returns None.
ChunkEnd ==
    /\ ~c_done
    /\ ChunkIterator_next(c_text, c_budget, c_pos, c_broken) = None
    /\ c_done' = TRUE
    /\ UNCHANGED <<c_text, c_budget, c_pos, c_broken, c_chunks, notChunkVars>>

ChunkNext == ChunkYield \/ ChunkEnd

SpecChunk == ChunkInit /\ [][ChunkNext]_vars

(***************************************************************************)
(* merge_non_overlapping_extractions called on any list of per-pass        *)
(* extraction lists.                                                       *)
(***************************************************************************)
CharIntervalOf(s, e) == [start_pos |-> s, end_pos |-> e]

\* [0,5) and [3,8) overlap, [3,8) and [5,10) overlap, [0,5) and [5,10) touch,
\* [10,15) is apart from [0,5) and [3,8) and touches [5,10)
MergeIntervals ==
    {CharIntervalOf(0, 5), CharIntervalOf(3, 8), CharIntervalOf(5, 10),
     CharIntervalOf(10, 15)}

MergeExtractions ==
    [extraction_class : {"x"}, char_interval : MergeIntervals \cup {None}]

PassLengths == {0, 1, 2}

PassLists == UNION {[1..n -> MergeExtractions] : n \in PassLengths}

MergeInit ==
    /\ m_all \in UNION {[1..n -> PassLists] : n \in 0..MaxMergePasses}
    /\ m_called = FALSE
    /\ m_out = <<>>
    /\ ChunkIdle
    /\ AnnIdle
    /\ PureIdle

MergeCall ==
    /\ ~m_called
    /\ m_called' = TRUE
    /\ m_out' = merge_non_overlapping_extractions(m_all)
    /\ UNCHANGED <<m_all, notMergeVars>>

MergeNext == MergeCall

SpecMerge == MergeInit /\ [][MergeNext]_vars

(***************************************************************************)
(* One call of Annotator::annotate_documents or Annotator::annotate_text.  *)
(*                                                                         *)
(* The language model is any adapter: an infer call fails, or returns for  *)
(* each prompt an empty output list or a list whose top output is one of   *)
(* Replies.  The prompt of a chunk is rendered from the chunk text alone.  *)
(***************************************************************************)
MaxPasses == 2

DocTexts == {<<>>, <<"a">>, <<"a", " ", "A">>}

DocIds == {None, Some("a"), Some("b")}

Documents == {Document(t, i) : t \in DocTexts, i \in DocIds}

DocLengths == {0, 1, 2}

DocumentLists == UNION {[1..n -> Documents] : n \in DocLengths}

\* one item {class: text} of the "extractions" array
Item(class, text) == JObject(<<Pair(<<class>>, JString(text))>>)

\* a fenced JSON reply {"extractions": [items]}
ExtractionsReply(items) ==
    InputString("fence json", JsonDocument(JObject(<<Pair(<<"extractions">>, JArray(items))>>)))

\* a reply without fence, and two well-formed replies: "a" and "A" align in a
\* chunk that holds the word, "z" never aligns and carries attributes
Replies ==
    {InputString("", [kind |-> "malformed"]),
     ExtractionsReply(<<JObject(Item("x", <<"z">>).object
                                \o <<Pair(<<"x", "_attributes">>,
                                          JObject(<<Pair(<<"k">>, JString(<<"v">>))>>))>>)>>),
     ExtractionsReply(<<Item("x", <<"A">>), Item("y", <<"a">>)>>)}

\* what the adapter does with one prompt
AdapterOutcomes ==
    {[kind |-> "infer_error"], [kind |-> "no_outputs"]}
        \cup {[kind |-> "outputs", top |-> r] : r \in Replies}

CallArgs ==
    [entry : {"annotate_documents"}, documents : DocumentLists,
     max_char_buffer : {2, 100}, batch_length : {1, 2}, debug : BOOLEAN,
     extraction_passes : 0..MaxPasses]
    \cup
    \* annotate_text: Document::new(text, None, additional_context)
    [entry : {"annotate_text"}, documents : {<<Document(t, None)>> : t \in DocTexts},
     max_char_buffer : {2, 100}, batch_length : {1, 2}, debug : BOOLEAN,
     extraction_passes : 0..MaxPasses]

\* the locals of annotate_documents_single_pass when it starts; cursor is the
\* index in docs of curr_document, consumed the outputs of the chunks
\* processed so far
SinglePassStart(documents) ==
    [docs |-> documents, next_doc |-> 1, visited_ids |-> {}, chunk_iter |-> None,
     chunks |-> <<>>, cursor |-> 1, annotated_extractions |-> <<>>,
     annotated_documents |-> <<>>, batch |-> 1, batch_scored_outputs |-> <<>>,
     in_batch |-> 1, consumed |-> <<>>, returned |-> None]

AnnInit ==
    /\ call \in CallArgs
    /\ pc = "annotate_documents"
    /\ sp = SinglePassStart(<<>>)
    /\ mp = [pass_num |-> 0, document_extractions_by_pass |-> <<>>, document_texts |-> <<>>]
    /\ result = None
    /\ hist = [calls |-> {}, infer_calls |-> 0, first_pass |-> None,
               adapter_failed |-> FALSE, parse_failed |-> FALSE]
    /\ ChunkIdle
    /\ MergeIdle
    /\ PureIdle

\* the debug flag the running single pass was given
PassDebug ==
    IF call.extraction_passes = 1 THEN call.debug ELSE call.debug /\ mp.pass_num = 0

\* annotate_documents: one pass runs the single pass, any other number the
\* sequential passes
AnnotateDocuments ==
    /\ pc = "annotate_documents"
    /\ IF call.extraction_passes = 1
       THEN /\ sp' = SinglePassStart(call.documents)
            /\ pc' = "document_chunk_iterator"
       ELSE /\ pc' = "sequential_passes"
            /\ sp' = sp
    /\ UNCHANGED <<call, mp, result, hist, notAnnVars>>

\* annotate_documents_sequential_passes: the head of the loop over pass_num
SequentialPass ==
    /\ pc = "sequential_passes"
    /\ IF mp.pass_num < call.extraction_passes
       THEN /\ sp' = SinglePassStart(call.documents)
            /\ pc' = "document_chunk_iterator"
       ELSE /\ pc' = "merge_passes"
            /\ sp' = sp
    /\ UNCHANGED <<call, mp, result, hist, notAnnVars>>

\* document_chunk_iterator, the head of its loop over the cloned documents:
\* the id of the next document is taken (and generated, in the clone, when the
\* document has none), a repeated id ends the single pass with the error, and
\* past the last document the single pass goes on with what it does with the
\* chunks (nothing and Ok(vec![]) when there is no document at all)
DocumentChunkIterator ==
    /\ pc = "document_chunk_iterator"
    /\ IF sp.next_doc > Len(sp.docs)
       THEN IF sp.docs = <<>>
            THEN /\ sp' = [sp EXCEPT !.returned = Ok(<<>>)]
                 /\ pc' = "single_pass_return"
            ELSE /\ sp' = sp
                 /\ pc' = "infer"
       ELSE \E document_id \in document_id_choices(sp.docs[sp.next_doc]) :
                IF is_repeat(sp.visited_ids, document_id)
                THEN /\ sp' = [sp EXCEPT !.returned = Err("DocumentRepeatError")]
                     /\ pc' = "single_pass_return"
                ELSE /\ sp' = [sp EXCEPT
                                  !.visited_ids = @ \cup {document_id},
                                  !.chunk_iter =
                                      [document |-> [sp.docs[sp.next_doc] EXCEPT
                                                        !.document_id = Some(document_id)],
                                       pos |-> 0, broken_sentence |-> FALSE]]
                     /\ pc' = "chunk_iterator"
    /\ UNCHANGED <<call, mp, result, hist, notAnnVars>>

\* document_chunk_iterator, one turn of its loop over the ChunkIterator of the
\* current document
DocumentChunk ==
    /\ pc = "chunk_iterator"
    /\ LET it == sp.chunk_iter
           r == ChunkIterator_next(tokenize(it.document.text), call.max_char_buffer,
                                   it.pos, it.broken_sentence)
       IN  IF r = None
           THEN /\ sp' = [sp EXCEPT !.chunk_iter = None, !.next_doc = @ + 1]
                /\ pc' = "document_chunk_iterator"
           ELSE /\ sp' = [sp EXCEPT
                             !.chunks = Append(@, [token_interval |-> r.chunk,
                                                   document |-> it.document]),
                             !.chunk_iter = [it EXCEPT !.pos = r.pos,
                                                       !.broken_sentence = r.broken_sentence]]
                /\ pc' = pc
    /\ UNCHANGED <<call, mp, result, hist, notAnnVars>>

\* the prompt of a chunk as far as the adapter's answer depends on it
render(text_chunk) == chunk_text_or_default(text_chunk)

\* the head of the loop over the batches: the prompts of the next batch are
\* rendered and infer is called; past the last batch the pass finalizes
Infer ==
    /\ pc = "infer"
    /\ LET batches == make_batches_of_textchunk(sp.chunks, call.batch_length) IN
       IF sp.batch > Len(batches)
       THEN /\ pc' = "finalize"
            /\ UNCHANGED <<sp, hist>>
       ELSE LET batch == batches[sp.batch]
                batch_prompts == [k \in DOMAIN batch |-> render(batch[k])]
            IN  \E outs \in [DOMAIN batch -> AdapterOutcomes] :
                    /\ hist' = [hist EXCEPT
                                   !.calls = @ \cup {[prompt |-> batch_prompts[k],
                                                      outcome |-> outs[k]] : k \in DOMAIN batch},
                                   !.infer_calls = @ + 1,
                                   !.adapter_failed =
                                       @ \/ \E k \in DOMAIN batch : outs[k].kind # "outputs"]
                    /\ IF \E k \in DOMAIN batch : outs[k].kind = "infer_error"
                       THEN /\ sp' = [sp EXCEPT !.returned = Err("infer")]
                            /\ pc' = "single_pass_return"
                       ELSE /\ sp' = [sp EXCEPT !.batch_scored_outputs = outs, !.in_batch = 1]
                            /\ pc' = "chunk"
    /\ UNCHANGED <<call, mp, result, notAnnVars>>

\* the body of the loop over the chunks of a batch and their outputs.
\* current_doc_id is taken once, before the while loop, so when it differs from
\* the chunk's document id the loop runs doc_iter to its end and the assertion
\* "Document should be defined for chunk" fails.
ProcessChunk ==
    /\ pc = "chunk"
    /\ LET batch == make_batches_of_textchunk(sp.chunks, call.batch_length)[sp.batch]
           text_chunk == batch[sp.in_batch]
           scored_outputs == sp.batch_scored_outputs[sp.in_batch]
       IN  IF scored_outputs.kind = "no_outputs"
           THEN /\ sp' = [sp EXCEPT !.returned = Err("No scored outputs from language model.")]
                /\ pc' = "single_pass_return"
                /\ UNCHANGED <<result, hist>>
           ELSE \E current_doc_id \in document_id_choices(sp.docs[sp.cursor]) :
                    IF Some(current_doc_id) # text_chunk.document.document_id
                    THEN /\ result' = [panic |-> "Document should be defined for chunk"]
                         /\ pc' = "done"
                         /\ UNCHANGED <<sp, hist>>
                    ELSE /\ sp' = [sp EXCEPT
                                      !.docs[sp.cursor].document_id = Some(current_doc_id),
                                      !.annotated_extractions =
                                          @ \o chunk_extractions(text_chunk, scored_outputs.top,
                                                                 PassDebug),
                                      !.consumed = Append(@, scored_outputs.top),
                                      !.in_batch = IF sp.in_batch = Len(batch) THEN 1 ELSE @ + 1,
                                      !.batch = IF sp.in_batch = Len(batch) THEN @ + 1 ELSE @]
                         /\ hist' = [hist EXCEPT
                                        !.parse_failed =
                                            @ \/ IsErr(resolve(DefaultResolver, scored_outputs.top, PassDebug, <<1>>))]
                         /\ pc' = IF sp.in_batch = Len(batch) THEN "infer" ELSE "chunk"
                         /\ result' = result
    /\ UNCHANGED <<call, mp, notAnnVars>>

\* after the batches: the document under the cursor is emitted with the
\* extractions accumulated, and the pass returns the annotated documents
Finalize ==
    /\ pc = "finalize"
    /\ \E document_id \in document_id_choices(sp.docs[sp.cursor]) :
           sp' = [sp EXCEPT
                     !.docs[sp.cursor].document_id = Some(document_id),
                     !.annotated_documents =
                         Append(@, AnnotatedDocument(document_id, sp.annotated_extractions,
                                                     sp.docs[sp.cursor].text)),
                     !.returned =
                         Ok(Append(sp.annotated_documents,
                                   AnnotatedDocument(document_id, sp.annotated_extractions,
                                                     sp.docs[sp.cursor].text)))]
    /\ pc' = "single_pass_return"
    /\ UNCHANGED <<call, mp, result, hist, notAnnVars>>

\* annotate_documents returns r: to its caller, or into annotate_text
ReturnFromAnnotateDocuments(r) ==
    /\ result' = r
    /\ pc' = IF call.entry = "annotate_text" THEN "annotate_text" ELSE "done"

\* annotate_documents_single_pass returns: to annotate_documents when one pass
\* was asked for; otherwise into the loop of the sequential passes, where an
\* error is propagated and the documents returned are filed by document id
SinglePassReturn ==
    /\ pc = "single_pass_return"
    /\ IF call.extraction_passes = 1 \/ IsErr(sp.returned)
       THEN /\ ReturnFromAnnotateDocuments(sp.returned)
            /\ UNCHANGED <<mp, hist>>
       ELSE LET filed == collect_pass(sp.returned.ok, mp.document_extractions_by_pass,
                                      mp.document_texts)
            IN  /\ mp' = [pass_num |-> mp.pass_num + 1,
                          document_extractions_by_pass |-> filed.by_pass,
                          document_texts |-> filed.texts]
                /\ hist' = [hist EXCEPT
                               !.first_pass =
                                   IF mp.pass_num = 0 THEN Some(sp.returned.ok) ELSE @]
                /\ pc' = "sequential_passes"
                /\ result' = result
    /\ UNCHANGED <<call, sp, notAnnVars>>

\* the orders in which a HashMap holding these keys may be iterated
IterationOrders(keys) ==
    {order \in [1..Cardinality(keys) -> keys] :
        \A i, j \in 1..Cardinality(keys) : order[i] = order[j] => i = j}

\* annotate_documents_sequential_passes after the last pass: one
\* AnnotatedDocument per document id filed, its extractions merged
MergeResults ==
    /\ pc = "merge_passes"
    /\ \E order \in IterationOrders(DOMAIN mp.document_extractions_by_pass) :
           ReturnFromAnnotateDocuments(
               Ok([k \in DOMAIN order |->
                      AnnotatedDocument(order[k],
                          merge_non_overlapping_extractions(
                              mp.document_extractions_by_pass[order[k]]),
                          mp.document_texts[order[k]])]))
    /\ UNCHANGED <<call, sp, mp, hist, notAnnVars>>

\* annotate_text after annotate_documents has returned: an error is
\* propagated, anything but one annotation fails the assertion, and the one
\* annotation is returned
AnnotateText ==
    /\ pc = "annotate_text"
    /\ result' =
           IF IsErr(result) THEN result
           ELSE IF Len(result.ok) # 1
                THEN [panic |-> "Expected 1 annotation"]
                ELSE Ok(AnnotatedDocument(result.ok[1].document_id.some,
                                          result.ok[1].extractions, result.ok[1].text))
    /\ pc' = "done"
    /\ UNCHANGED <<call, sp, mp, hist, notAnnVars>>

Next ==
    \/ AnnotateDocuments
    \/ SequentialPass
    \/ DocumentChunkIterator
    \/ DocumentChunk
    \/ Infer
    \/ ProcessChunk
    \/ Finalize
    \/ SinglePassReturn
    \/ MergeResults
    \/ AnnotateText

Spec == AnnInit /\ [][Next]_vars

(***************************************************************************)
(* Properties of the merge.                                                *)
(***************************************************************************)
\* the overlap of two char intervals as the specification words it
StrictOverlap(a, b) == a.start_pos < b.end_pos /\ b.start_pos < a.end_pos

BothOverlap(e1, e2) ==
    /\ e1.char_interval # None
    /\ e2.char_interval # None
    /\ StrictOverlap(e1.char_interval, e2.char_interval)

RECURSIVE Flatten(_)
Flatten(passes) == IF passes = <<>> THEN <<>> ELSE Head(passes) \o Flatten(Tail(passes))

RECURSIVE Accepted(_, _, _)
\* whether element j of the concatenated passes is accepted, the first n1
\* elements being pass 1
Accepted(flat, n1, j) ==
    \/ j <= n1
    \/ flat[j].char_interval = None
    \/ \A i \in 1..(j - 1) : Accepted(flat, n1, i) => ~BothOverlap(flat[i], flat[j])

RECURSIVE Select(_, _, _)
Select(flat, n1, j) ==
    IF j > Len(flat) THEN <<>>
    ELSE (IF Accepted(flat, n1, j) THEN <<flat[j]>> ELSE <<>>) \o Select(flat, n1, j + 1)

FirstPassWins(all) ==
    IF all = <<>> THEN <<>> ELSE Select(Flatten(all), Len(all[1]), 1)

\* C1 as claimed: no two extractions of a merged result that both have a char
\* interval overlap, whatever the per-pass lists were.
C1_MergedNeverOverlap ==
    m_called =>
        \A i, j \in DOMAIN m_out : i < j => ~BothOverlap(m_out[i], m_out[j])

\* C1 as amended: an extraction taken from a pass after the first overlaps no
\* extraction that precedes it in the merged result, so two extractions of the
\* result overlap only when both come from the first pass.
C1_LaterPassesNeverOverlap ==
    m_called =>
        \A i, j \in DOMAIN m_out :
            (i < j /\ BothOverlap(m_out[i], m_out[j])) => j <= Len(m_all[1])

\* C1 witness: a second pass whose extraction overlaps an accepted one was
\* merged and the extraction was left out, while another one was taken.
C1_Witness ==
    /\ m_called
    /\ Len(m_all) = 2
    /\ Len(m_all[1]) = 1
    /\ Len(m_all[2]) = 2
    /\ BothOverlap(m_all[2][1], m_all[1][1])
    /\ m_all[2][2].char_interval # None
    /\ Len(m_out) = 2

\* C2: the merge is first-pass-wins: the result is pass 1 in its order,
\* followed pass by pass, in each pass's order, by exactly those extractions
\* that have no char interval or strictly overlap nothing accepted before.
C2_FirstPassWins == m_called => m_out = FirstPassWins(m_all)

X(s, e) == [extraction_class |-> "x", char_interval |-> CharIntervalOf(s, e)]

\* C2 witness: the example of the specification, merged.
C2_Witness ==
    /\ m_called
    /\ m_all = <<<<X(0, 5)>>, <<X(3, 8), X(10, 15)>>>>
    /\ m_out = <<X(0, 5), X(10, 15)>>

(***************************************************************************)
(* Properties of the chunker.                                              *)
(***************************************************************************)
\* the number of bytes a chunk spans, from the start of its first token to
\* the end of its last; a chunk without tokens spans nothing
ChunkSpan(tt, chunk) ==
    IF chunk.start_index >= chunk.end_index THEN 0
    ELSE tt.tokens[chunk.end_index].char_interval.end_pos
         - tt.tokens[chunk.start_index + 1].char_interval.start_pos

\* C9: every chunk yielded either spans exactly one token or has
\* char_end - char_start <= max_char_buffer.
C9_ChunkWithinBudget ==
    \A k \in DOMAIN c_chunks :
        \/ c_chunks[k].end_index - c_chunks[k].start_index = 1
        \/ ChunkSpan(c_text, c_chunks[k]) <= c_budget

\* C9 witness: the iterator has finished after yielding a chunk of one token
\* that is over the budget and a chunk of several tokens that fills the budget.
C9_Witness ==
    /\ c_done
    /\ \E k \in DOMAIN c_chunks :
           /\ c_chunks[k].end_index - c_chunks[k].start_index = 1
           /\ ChunkSpan(c_text, c_chunks[k]) > c_budget
    /\ \E k \in DOMAIN c_chunks :
           /\ c_chunks[k].end_index - c_chunks[k].start_index > 1
           /\ ChunkSpan(c_text, c_chunks[k]) = c_budget

\* C10: the chunks yielded have valid token intervals and tile the token
\* sequence in source order: the first starts at token 0, each next one starts
\* where the previous one ended, and when the iterator ends the last one ends
\* at the token count.
C10_ChunksTile ==
    /\ \A k \in DOMAIN c_chunks :
           /\ c_chunks[k].start_index < c_chunks[k].end_index
           /\ c_chunks[k].end_index <= Len(c_text.tokens)
           /\ c_chunks[k].start_index =
                  (IF k = 1 THEN 0 ELSE c_chunks[k - 1].end_index)
    /\ c_done =>
           (IF c_chunks = <<>> THEN Len(c_text.tokens) = 0
            ELSE c_chunks[Len(c_chunks)].end_index = Len(c_text.tokens))

(***************************************************************************)
(* Properties of the annotator call.                                       *)
(***************************************************************************)
\* the adapter answered every prompt it saw more than once the same way
Deterministic ==
    \A c1, c2 \in hist.calls : c1.prompt = c2.prompt => c1.outcome = c2.outcome

HasDuplicateIds(documents) ==
    \E i, j \in DOMAIN documents :
        /\ i < j
        /\ documents[i].document_id # None
        /\ documents[i].document_id = documents[j].document_id

DistinctExplicitIds(documents) ==
    /\ \A i \in DOMAIN documents : documents[i].document_id # None
    /\ ~HasDuplicateIds(documents)

RECURSIVE OwnExtractions(_, _, _, _)
\* the aligned extractions of the chunks of the document with this id, in
\* chunk order, given the top outputs the chunks were answered with
OwnExtractions(document_id, chunks, tops, debug) ==
    IF chunks = <<>> THEN <<>>
    ELSE (IF Head(chunks).document.document_id = document_id
          THEN chunk_extractions(Head(chunks), Head(tops), debug)
          ELSE <<>>)
         \o OwnExtractions(document_id, Tail(chunks), Tail(tops), debug)

\* C3: with a deterministic adapter, annotate_documents with N > 1 passes
\* returns the AnnotatedDocuments that one pass returns: the same documents
\* and the same extraction sequence per document.  Stated for documents
\* given with pairwise distinct ids, where the ids of two passes are the same.
C3_MultiPassEqualsSinglePass ==
    (/\ pc = "done"
     /\ call.entry = "annotate_documents"
     /\ call.extraction_passes > 1
     /\ DistinctExplicitIds(call.documents)
     /\ Deterministic
     /\ hist.first_pass # None)
    => result = Ok(hist.first_pass.some)

\* C4: a single pass over documents with pairwise distinct ids, every prompt
\* answered with a non-empty output list, returns one AnnotatedDocument per
\* input document, in input order, each holding the aligned extractions of its
\* own chunks in chunk order.
C4_OneAnnotatedDocumentPerInput ==
    (/\ pc = "done"
     /\ call.entry = "annotate_documents"
     /\ call.extraction_passes = 1
     /\ DistinctExplicitIds(call.documents)
     /\ ~hist.adapter_failed)
    => /\ IsOk(result)
       /\ Len(result.ok) = Len(call.documents)
       /\ \A k \in DOMAIN call.documents :
              result.ok[k] =
                  AnnotatedDocument(call.documents[k].document_id.some,
                      OwnExtractions(call.documents[k].document_id, sp.chunks,
                                     sp.consumed, call.debug),
                      call.documents[k].text)

\* C5: annotate_text over any text, run with at least one pass and every
\* prompt answered with a non-empty output list, returns one AnnotatedDocument
\* whose text is the input text; neither assertion fails.
C5_AnnotateTextReturnsOneDocument ==
    (/\ pc = "done"
     /\ call.entry = "annotate_text"
     /\ call.extraction_passes >= 1
     /\ ~hist.adapter_failed)
    => /\ IsOk(result)
       /\ result.ok.text = call.documents[1].text

C7_AdapterFailureIsError ==
    (/\ pc = "done"
     /\ call.entry = "annotate_documents"
     /\ DistinctExplicitIds(call.documents)
     /\ hist.adapter_failed)
    => IsErr(result)

\* C8: in a single pass, when the resolver fails on the top reply of a chunk
\* and suppression of parse errors was not requested, the call returns an
\* error.  Stated for documents given with pairwise distinct ids.
C8_ParseFailureIsFatal ==
    (/\ pc = "done"
     /\ call.entry = "annotate_documents"
     /\ call.extraction_passes = 1
     /\ DistinctExplicitIds(call.documents)
     /\ ~call.debug
     /\ hist.parse_failed)
    => IsErr(result)

(***************************************************************************)
(* tokenize called on any text.                                            *)
(***************************************************************************)
TokAlphabet == {"a", "A", "1", "/", ".", " ", "\n", CJK}

TokInit ==
    /\ p_input \in TextsUpTo(TokAlphabet, MaxTextLen)
    /\ p_call = None
    /\ ChunkIdle
    /\ MergeIdle
    /\ AnnIdle

Tokenize ==
    /\ p_call = None
    /\ p_call' = [op |-> "tokenize", result |-> tokenize(p_input)]
    /\ UNCHANGED <<p_input, notPureVars>>

TokNext == Tokenize

SpecTok == TokInit /\ [][TokNext]_vars

(***************************************************************************)
(* Properties of the tokenizer.                                            *)
(***************************************************************************)
Returned(op) == p_call # None /\ p_call.op = op

\* C11: the tokens of tokenize(t) have start < end and end within the text
\* (at most the number of characters of t), ascend without overlapping,
\* carry the indices 0..n-1 in order and hold no whitespace character; a
\* text that is empty or all whitespace has no token.
C11_TokenInvariants ==
    Returned("tokenize") =>
        LET toks == p_call.result.tokens IN
        /\ \A k \in DOMAIN toks :
               /\ toks[k].char_interval.start_pos < toks[k].char_interval.end_pos
               /\ toks[k].char_interval.end_pos <= Len(p_input)
               /\ toks[k].index = k - 1
               /\ k > 1 => toks[k - 1].char_interval.end_pos
                               <= toks[k].char_interval.start_pos
               /\ \A j \in DOMAIN TokenText(p_input, toks, k - 1) :
                      TokenText(p_input, toks, k - 1)[j] \notin WhitespaceChars
        /\ (\A j \in DOMAIN p_input : p_input[j] \in WhitespaceChars) => toks = <<>>

\* C12: the positions of a token are code-point offsets: start_pos is the
\* number of code points that precede the token in the text and end_pos the
\* number of code points up to its end.
C12_CodePointOffsets ==
    Returned("tokenize") =>
        \A k \in DOMAIN p_call.result.tokens :
            LET ci == p_call.result.tokens[k].char_interval IN
            /\ ci.start_pos = CharsBefore(p_input, ci.start_pos)
            /\ ci.end_pos = CharsBefore(p_input, ci.end_pos)

(***************************************************************************)
(* find_sentence_range and the functions that take a token interval,       *)
(* called on the tokens of any text with any index or interval.            *)
(***************************************************************************)
MaxRangeTextLen == 4

RangeAlphabet == {"D", "r", "A", ".", " ", "\n"}

\* the text of test_find_sentence_range
HelloWorld ==
    <<"H", "e", "l", "l", "o", " ", "w", "o", "r", "l", "d", "!", " ",
      "T", "h", "i", "s", " ", "i", "s", " ", "R", "u", "s", "t", ".">>

RangeInit ==
    /\ p_input \in TextsUpTo(RangeAlphabet, MaxRangeTextLen) \cup {HelloWorld}
    /\ p_call = None
    /\ ChunkIdle
    /\ MergeIdle
    /\ AnnIdle

\* the indices a caller may pass: every token index and two past the last
RangeIndices == 0..(Len(tokenize(p_input).tokens) + 1)

FindSentenceRange ==
    /\ p_call = None
    /\ \E s \in RangeIndices :
           p_call' = [op |-> "find_sentence_range", start_token_index |-> s,
                      result |-> find_sentence_range(p_input, tokenize(p_input).tokens, s)]
    /\ UNCHANGED <<p_input, notPureVars>>

TokensText ==
    /\ p_call = None
    /\ \E s, e \in RangeIndices :
           p_call' = [op |-> "tokens_text", token_interval |-> Interval(s, e),
                      result |-> tokens_text(tokenize(p_input), Interval(s, e))]
    /\ UNCHANGED <<p_input, notPureVars>>

GetTokenIntervalText ==
    /\ p_call = None
    /\ \E s, e \in RangeIndices :
           p_call' = [op |-> "get_token_interval_text", token_interval |-> Interval(s, e),
                      result |-> get_token_interval_text(tokenize(p_input), Interval(s, e))]
    /\ UNCHANGED <<p_input, notPureVars>>

GetCharInterval ==
    /\ p_call = None
    /\ \E s, e \in RangeIndices :
           p_call' = [op |-> "get_char_interval", token_interval |-> Interval(s, e),
                      result |-> get_char_interval(tokenize(p_input), Interval(s, e))]
    /\ UNCHANGED <<p_input, notPureVars>>

RangeNext == FindSentenceRange \/ TokensText \/ GetTokenIntervalText \/ GetCharInterval

SpecRange == RangeInit /\ [][RangeNext]_vars

(***************************************************************************)
(* Properties of sentence ranges and token intervals.                      *)
(***************************************************************************)
\* the characters of token k (0-based) of the tokenized text tt
CharsOfToken(tt, k) ==
    Slice(tt.text, tt.tokens[k + 1].char_interval.start_pos,
          tt.tokens[k + 1].char_interval.end_pos)

Abbreviations ==
    {<<"M", "r", ".">>, <<"M", "r", "s", ".">>, <<"M", "s", ".">>,
     <<"D", "r", ".">>, <<"P", "r", "o", "f", ".">>, <<"S", "t", ".">>}

\* token k is a punctuation token that ends in a sentence terminator and does
\* not form a known abbreviation with the token before it
Terminates(tt, k) ==
    /\ tt.tokens[k + 1].token_type = "Punctuation"
    /\ CharsOfToken(tt, k)[Len(CharsOfToken(tt, k))] \in {".", "?", "!"}
    /\ ~(k > 0 /\ (CharsOfToken(tt, k - 1) \o CharsOfToken(tt, k)) \in Abbreviations)

\* token k is followed by a gap that holds a newline and by a token that
\* starts with an uppercase letter
BreaksAtNewline(tt, k) ==
    /\ k + 1 < Len(tt.tokens)
    /\ \E c \in {j \in DOMAIN tt.text :
                    /\ ByteOff(tt.text, j - 1) >= tt.tokens[k + 1].char_interval.end_pos
                    /\ ByteOff(tt.text, j) <= tt.tokens[k + 2].char_interval.start_pos} :
           tt.text[c] = "\n"
    /\ CharsOfToken(tt, k + 1)[1] \in UpperChars

SentenceEnds(tt, k) == Terminates(tt, k) \/ BreaksAtNewline(tt, k)

\* C13: find_sentence_range from s < token count returns [s, k+1) for the
\* smallest k >= s at which a sentence ends, and [s, token count) when there
\* is none; so the range is not empty and the calls made from each returned
\* end partition the tokens.
C13_SentenceRange ==
    (Returned("find_sentence_range")
         /\ p_call.start_token_index < Len(tokenize(p_input).tokens))
    => LET tt == tokenize(p_input)
           s == p_call.start_token_index
           ends == {k \in s..(Len(tt.tokens) - 1) : SentenceEnds(tt, k)}
       IN  /\ p_call.result.start_index = s
           /\ p_call.result.end_index =
                  IF ends = {} THEN Len(tt.tokens)
                  ELSE (CHOOSE k \in ends : \A j \in ends : k <= j) + 1
           /\ s < p_call.result.end_index
           /\ p_call.result.end_index <= Len(tt.tokens)

\* C13 witness: the second sentence of "Hello world! This is Rust." has been
\* found from the end of the first.
C13_Witness ==
    /\ Returned("find_sentence_range")
    /\ p_input = HelloWorld
    /\ p_call.start_token_index =
           find_sentence_range(HelloWorld, tokenize(HelloWorld).tokens, 0).end_index
    /\ p_call.start_token_index = 3
    /\ p_call.result = Interval(3, 7)

InvalidInterval(tt, token_interval) ==
    \/ token_interval.start_index >= token_interval.end_index
    \/ token_interval.end_index > Len(tt.tokens)

\* C14: tokens_text, get_token_interval_text and get_char_interval return an
\* error for an interval with start >= end or end > token count, and
\* find_sentence_range returns an error for a start index >= token count.
C14_InvalidIntervalIsError ==
    /\ (Returned("tokens_text") \/ Returned("get_token_interval_text")
            \/ Returned("get_char_interval"))
           /\ InvalidInterval(tokenize(p_input), p_call.token_interval)
       => IsErr(p_call.result)
    /\ Returned("find_sentence_range")
           /\ p_call.start_token_index >= Len(tokenize(p_input).tokens)
       => IsErr(p_call.result)

(***************************************************************************)
(* One call of Resolver::resolve on any reply, and one round trip of an    *)
(* example through format_example_as_text and resolve.                     *)
(***************************************************************************)
MaxPairs == 3

Resolvers ==
    {DefaultResolver,
     [DefaultResolver EXCEPT !.fence_output = FALSE, !.format_is_yaml = TRUE]}

\* the key/value pairs of the items of a reply: an extraction text that is a
\* string or an array, index values that are integers, a string and a
\* fraction, attributes that are a mapping, null and a string
PairChoices ==
    {Pair(<<"a">>, JString(<<"x">>)), Pair(<<"a">>, JArray(<<>>)),
     Pair(<<"a", "_index">>, JNumber(1)), Pair(<<"a", "_index">>, JNumber(2)),
     Pair(<<"a", "_index">>, JString(<<"1">>)),
     Pair(<<"a", "_index">>, JFloat(<<"1", ".", "5">>)),
     Pair(<<"a", "_attributes">>, JObject(<<>>)), Pair(<<"a", "_attributes">>, JNull),
     Pair(<<"a", "_attributes">>, JString(<<"v">>)),
     Pair(<<"b">>, JString(<<"y">>)), Pair(<<"b", "_index">>, JNumber(1))}

\* the objects of up to n pairs with distinct keys, in every order
ObjectsUpTo(n) ==
    {JObject(pairs) : pairs \in
        {q \in UNION {[1..k -> PairChoices] : k \in 0..n} :
            \A i, j \in DOMAIN q : i # j => q[i].key # q[j].key}}

\* the replies: fenced JSON documents of every shape (an "extractions" array
\* of up to two items, among them an item with extraction_class and
\* extraction_text that carries an index or an attributes key, an
\* "extractions" value that is no array, a top-level
\* null, string, array or category object), and blank, malformed, unfenced
\* and YAML inputs around small documents
InputStrings ==
    LET structured == JObject(<<Pair(<<"extraction_class">>, JString(<<"c">>)),
                                Pair(<<"extraction_text">>, JString(<<"z">>))>>)
        arrays == {<<>>}
                      \cup {<<o>> : o \in ObjectsUpTo(MaxPairs)}
                      \cup {<<f, o>> : f \in {JObject(<<>>), JString(<<"s">>), structured},
                                       o \in ObjectsUpTo(MaxPairs)}
                      \cup {<<o1, o2>> : o1 \in ObjectsUpTo(1), o2 \in ObjectsUpTo(1)}
                      \cup {<<JObject(structured.object \o <<p>>)>> :
                                p \in {Pair(<<"extraction_text", "_index">>, JNumber(2)),
                                       Pair(<<"extraction_text", "_attributes">>,
                                            JObject(<<>>))}}
        top_arrays == {<<>>, <<JString(<<"x">>)>>, <<JString(<<"x">>), JString(<<"y">>)>>,
                       <<JString(<<"x">>), JArray(<<>>)>>,
                       <<JString(<<"x">>), JString(<<"y">>), JString(<<"z">>)>>}
        values == {JObject(<<Pair(<<"extractions">>, JArray(arr))>>) : arr \in arrays}
                      \cup {JObject(<<Pair(<<"extractions">>, JString(<<"x">>))>>),
                            JNull, JString(<<"x">>)}
                      \cup {JArray(arr) : arr \in top_arrays}
                      \cup ObjectsUpTo(2)
        small == {JObject(<<Pair(<<"extractions">>, JArray(<<o>>))>>) : o \in ObjectsUpTo(1)}
    IN  {InputString("fence json", JsonDocument(v)) : v \in values}
            \cup {InputString(f, c) : f \in {"", "fence json", "fence yaml"},
                                      c \in {[kind |-> "blank"], [kind |-> "malformed"]}}
            \cup {InputString(f, c) : f \in {"", "fence yaml"},
                                      c \in {JsonDocument(v) : v \in small}
                                                \cup {YamlDocument(v) : v \in small}}
            \cup {InputString("fence json", YamlDocument(v)) : v \in small}

\* the orders in which a HashMap of up to MaxPairs keys may iterate
HashOrders ==
    {order \in [1..MaxPairs -> 1..MaxPairs] :
        \A i, j \in 1..MaxPairs : order[i] = order[j] => i = j}

\* ExampleData with up to two extractions (Extraction of prompting.rs), whose
\* attributes are None or Some(the pairs of the map)
Examples ==
    LET extractions == [extraction_class : {<<"a">>, <<"b">>},
                        extraction_text : {<<"x">>, <<"y">>},
                        attributes : {None, Some(<<>>),
                                      Some(<<Pair(<<"k">>, JString(<<"v">>))>>)}]
    IN  {[text |-> <<"q">>, extractions |-> e] :
            e \in UNION {[1..n -> extractions] : n \in 0..2}}

Generators ==
    [format_type : {"YAML", "JSON"}, attribute_suffix : {"_attributes", "_attrs"},
     fence_output : BOOLEAN]

\* the resolver with the wire format, the fencing and the attribute suffix of
\* a generator
ResolverOf(generator) ==
    [fence_output |-> generator.fence_output,
     extraction_index_suffix |-> Some("_index"),
     extraction_attributes_suffix |-> Some(generator.attribute_suffix),
     format_is_yaml |-> generator.format_type = "YAML"]

ResolveInit ==
    /\ p_input \in [op : {"resolve"}, self : Resolvers, input_text : InputStrings]
                       \cup [op : {"round_trip"}, generator : Generators, example : Examples]
    /\ p_call = None
    /\ ChunkIdle
    /\ MergeIdle
    /\ AnnIdle

Resolve ==
    /\ p_call = None
    /\ p_input.op = "resolve"
    /\ \E suppress_parse_errors \in BOOLEAN, hash_order \in HashOrders :
           p_call' = [op |-> "resolve",
                      suppress_parse_errors |-> suppress_parse_errors,
                      hash_order |-> hash_order,
                      result |-> resolve(p_input.self, p_input.input_text,
                                         suppress_parse_errors, hash_order)]
    /\ UNCHANGED <<p_input, notPureVars>>

RoundTrip ==
    /\ p_call = None
    /\ p_input.op = "round_trip"
    /\ \E hash_order \in HashOrders :
           LET answer == format_example_as_text(p_input.generator, p_input.example).answer
           IN  p_call' = [op |-> "round_trip",
                          answer |-> answer,
                          result |-> resolve(ResolverOf(p_input.generator), answer,
                                             FALSE, hash_order)]
    /\ UNCHANGED <<p_input, notPureVars>>

ResolveNext == Resolve \/ RoundTrip

SpecResolve == ResolveInit /\ [][ResolveNext]_vars

(***************************************************************************)
(* Properties of the resolver.                                             *)
(***************************************************************************)
\* C15: the extractions of a successful resolve are in non-decreasing
\* lexicographic order of (extraction_index, group_index).
C15_ResolvedSorted ==
    (Returned("resolve") /\ IsOk(p_call.result))
    => \A i, j \in DOMAIN p_call.result.ok :
           i < j =>
               \/ p_call.result.ok[i].extraction_index < p_call.result.ok[j].extraction_index
               \/ /\ p_call.result.ok[i].extraction_index = p_call.result.ok[j].extraction_index
                  /\ p_call.result.ok[i].group_index <= p_call.result.ok[j].group_index

\* C15 witness: explicit indices put an extraction of a later group before
\* one of an earlier group.
C15_Witness ==
    /\ Returned("resolve")
    /\ IsOk(p_call.result)
    /\ \E i, j \in DOMAIN p_call.result.ok :
           /\ i < j
           /\ p_call.result.ok[i].group_index > p_call.result.ok[j].group_index
           /\ p_call.result.ok[i].extraction_index < p_call.result.ok[j].extraction_index

\* C16: no two extractions of one resolve result have the same
\* (extraction_index, group_index).
C16_IndexPairsUnique ==
    (Returned("resolve") /\ IsOk(p_call.result))
    => \A i, j \in DOMAIN p_call.result.ok :
           i # j =>
               <<p_call.result.ok[i].extraction_index, p_call.result.ok[i].group_index>>
                   # <<p_call.result.ok[j].extraction_index, p_call.result.ok[j].group_index>>

\* C17: with suppress_parse_errors resolve returns no error, and a reply
\* that is an error without suppression is the empty sequence with it.
C17_SuppressedNeverFails ==
    (Returned("resolve") /\ p_call.suppress_parse_errors)
    => /\ IsOk(p_call.result)
       /\ IsErr(resolve(p_input.self, p_input.input_text, FALSE, p_call.hash_order))
              => p_call.result = Ok(<<>>)

\* the attributes of a resolved extraction equal those of an example
\* extraction: both absent, or the same set of pairs
SameAttributes(resolved, example) ==
    IF example = None THEN resolved = None
    ELSE /\ resolved # None
         /\ is_object(resolved.some)
         /\ {resolved.some.object[i] : i \in DOMAIN resolved.some.object}
                = {example.some[i] : i \in DOMAIN example.some}

\* C18: resolving the answer that format_example_as_text serialized from the
\* extractions E of an example, with the same format, fencing and attribute
\* suffix, yields the classes, texts and attributes of E in the same order.
C18_RoundTrip ==
    Returned("round_trip")
    => /\ IsOk(p_call.result)
       /\ Len(p_call.result.ok) = Len(p_input.example.extractions)
       /\ \A k \in DOMAIN p_input.example.extractions :
              /\ p_call.result.ok[k].extraction_class
                     = p_input.example.extractions[k].extraction_class
              /\ p_call.result.ok[k].extraction_text
                     = p_input.example.extractions[k].extraction_text
              /\ SameAttributes(p_call.result.ok[k].attributes,
                                p_input.example.extractions[k].attributes)

(***************************************************************************)
(* One call of Resolver::align on extractions as resolve returns them.     *)
(***************************************************************************)
MaxAlignTextLen == 4

AlignAlphabet == {"a", "A", "b", " ", CJK}

\* the source and the extraction text of test_alignment_exact
AliceSource ==
    <<"A", "l", "i", "c", "e", " ", "w", "e", "n", "t", " ", "t", "o", " ",
      "t", "h", "e", " ", "m", "a", "r", "k", "e", "t", ".">>

AliceWent == <<"A", "l", "i", "c", "e", " ", "w", "e", "n", "t">>

\* up to two extractions as extract_ordered_extractions_impl numbers them
ExtractionLists(texts) ==
    {[k \in 1..n |-> Extraction(<<"c">>, t[k], k, k - 1,
                                IF k = 1 THEN None ELSE Some(JObject(<<>>)))] :
        n \in 0..2, t \in [1..2 -> texts]}

\* the extraction texts: one token, two tokens, a text that is in no source,
\* a text without token
AlignInit ==
    LET texts == {<<"a">>, <<"A", " ", "b">>, <<"z">>, <<" ">>}
        offsets == {[token_offset |-> 0, char_offset |-> None],
                    [token_offset |-> 2, char_offset |-> Some(3)]}
        args(e, t, o, f) ==
            [extractions |-> e, source_text |-> t,
             token_offset |-> o.token_offset, char_offset |-> o.char_offset,
             enable_fuzzy_alignment |-> f, fuzzy_alignment_threshold |-> 75]
    IN  /\ p_input \in
               {args(e, t, o, f) : e \in ExtractionLists(texts),
                                   t \in TextsUpTo(AlignAlphabet, MaxAlignTextLen),
                                   o \in offsets, f \in BOOLEAN}
                   \cup {args(e, AliceSource, o, f) : e \in ExtractionLists({AliceWent}),
                                                      o \in offsets, f \in BOOLEAN}
        /\ p_call = None
        /\ ChunkIdle
        /\ MergeIdle
        /\ AnnIdle

Align ==
    /\ p_call = None
    /\ p_call' = [op |-> "align",
                  result |-> align(p_input.extractions, p_input.source_text,
                                   p_input.token_offset, p_input.char_offset,
                                   p_input.enable_fuzzy_alignment,
                                   p_input.fuzzy_alignment_threshold)]
    /\ UNCHANGED <<p_input, notPureVars>>

AlignNext == Align

SpecAlign == AlignInit /\ [][AlignNext]_vars

(***************************************************************************)
(* Properties of the aligner.                                              *)
(***************************************************************************)
\* the lowercased whitespace-split tokens of a text
LoweredTokens(text) ==
    LET split == split_whitespace(text) IN [k \in DOMAIN split |-> to_lowercase(split[k])]

\* the starts (0-based) of the contiguous runs of the tokens ext in src
Runs(ext, src) ==
    {q \in 0..(Len(src) - Len(ext)) : \A i \in DOMAIN ext : src[q + i] = ext[i]}

CharOffsetVal == IF p_input.char_offset = None THEN 0 ELSE p_input.char_offset.some

\* C19: an extraction of N >= 1 tokens has status exact iff the chunk's
\* lowercased tokens hold its lowercased tokens as a contiguous run, with
\* fuzzy matching on or off; then the run with the smallest start p is
\* recorded: token interval [p + token_offset, p + N + token_offset), char
\* interval [char_offset + tokens[p].start, char_offset + tokens[p+N-1].end),
\* and the chunk tokens of the recorded interval are the extraction's tokens.
C19_ExactAlignment ==
    Returned("align")
    => \A k \in DOMAIN p_input.extractions :
           LET ext == LoweredTokens(p_input.extractions[k].extraction_text)
               src == LoweredTokens(p_input.source_text)
               toks == whitespace_tokenize(p_input.source_text).tokens
               N == Len(ext)
               runs == Runs(ext, src)
               p == CHOOSE q \in runs : \A r \in runs : q <= r
               e == p_call.result[k]
           IN  N >= 1 =>
                   /\ (e.alignment_status = Some("MatchExact")) <=> (runs # {})
                   /\ runs # {} =>
                          /\ e.token_interval
                                 = [start_index |-> p + p_input.token_offset,
                                    end_index |-> p + N + p_input.token_offset]
                          /\ e.char_interval
                                 = [start_pos |-> CharOffsetVal + toks[p + 1].char_interval.start_pos,
                                    end_pos |-> CharOffsetVal + toks[p + N].char_interval.end_pos]
                          /\ SubSeq(src, e.token_interval.start_index - p_input.token_offset + 1,
                                    e.token_interval.end_index - p_input.token_offset) = ext

\* C19 witness: "Alice went" has been aligned in "Alice went to the market."
\* with fuzzy matching enabled: exact, char interval [0, 10).
C19_Witness ==
    /\ Returned("align")
    /\ p_input.source_text = AliceSource
    /\ p_input.enable_fuzzy_alignment
    /\ p_input.char_offset = None
    /\ Len(p_call.result) >= 1
    /\ p_call.result[1].extraction_text = AliceWent
    /\ p_call.result[1].alignment_status = Some("MatchExact")
    /\ p_call.result[1].char_interval = [start_pos |-> 0, end_pos |-> 10]

\* C20: align returns one extraction per input extraction, in order, with
\* class, text, extraction_index, group_index and attributes unchanged; an
\* extraction without status has no token interval and no char interval, an
\* extraction without token or without match has no status; every char
\* interval that is set lies within [char_offset, char_offset + length of
\* the chunk text], the length counted in characters.
C20_AlignKeepsExtractions ==
    Returned("align")
    => /\ Len(p_call.result) = Len(p_input.extractions)
       /\ \A k \in DOMAIN p_input.extractions :
              LET in == p_input.extractions[k]
                  out == p_call.result[k]
                  ext == LoweredTokens(in.extraction_text)
                  src == LoweredTokens(p_input.source_text)
              IN  /\ out.extraction_class = in.extraction_class
                  /\ out.extraction_text = in.extraction_text
                  /\ out.extraction_index = in.extraction_index
                  /\ out.group_index = in.group_index
                  /\ out.attributes = in.attributes
                  /\ out.alignment_status = None
                         => out.token_interval = None /\ out.char_interval = None
                  /\ (ext = <<>> \/ (Runs(ext, src) = {} /\ ~p_input.enable_fuzzy_alignment))
                         => out.alignment_status = None
                  /\ out.char_interval # None
                         => /\ CharOffsetVal <= out.char_interval.start_pos
                            /\ out.char_interval.start_pos <= out.char_interval.end_pos
                            /\ out.char_interval.end_pos
                                   <= CharOffsetVal + Len(p_input.source_text)

(***************************************************************************)
(* Further properties of the chunker.                                      *)
(***************************************************************************)
\* C21: every call of ChunkIterator::next that returns a chunk moves the
\* iterator's position strictly forward, and the iterator never returns more
\* chunks than the document has tokens.
C21_EveryChunkAdvances ==
    [][ChunkYield => (c_pos' > c_pos /\ Len(c_chunks') <= Len(c_text.tokens))]_vars

\* the sentence that a call of next at the present position starts from
CurrentSentence == SentenceIterator_next(c_text, c_pos)

\* the tokens of the current sentence at which the chunk measured from the
\* present position, by the token offsets themselves, passes the budget
OverflowTokens ==
    IF CurrentSentence = None THEN {}
    ELSE {t \in c_pos .. CurrentSentence.end_index - 1 :
              c_text.tokens[t + 1].char_interval.end_pos
                  - c_text.tokens[c_pos + 1].char_interval.start_pos > c_budget}

Least(S) == CHOOSE x \in S : \A y \in S : x <= y

Greatest(S) == CHOOSE x \in S : \A y \in S : y <= x

\* the first tokens after a newline seen behind the chunk's start, up to the
\* token t
LineStartsBehindStart(t) ==
    {i \in c_pos + 1 .. t : c_text.tokens[i + 1].first_token_after_newline}

\* C22: when the chunk's first token fits and a later token of the sentence
\* would pass the budget, the chunk returned ends just before the most recent
\* first-after-newline token seen behind the chunk's start, or just before
\* the overflowing token when there is none; it is non-empty and the iterator
\* resumes at the cut.
C22_OverflowCut ==
    [][(ChunkYield /\ OverflowTokens # {} /\ c_pos \notin OverflowTokens)
       => LET t == Least(OverflowTokens)
              cut == IF LineStartsBehindStart(t) # {}
                     THEN Greatest(LineStartsBehindStart(t)) ELSE t
              chunk == c_chunks'[Len(c_chunks')]
          IN  /\ chunk = Interval(c_pos, cut)
              /\ chunk.start_index < chunk.end_index
              /\ c_pos' = cut]_vars

\* the tokens whose own length passes the budget
OverBudgetTokens ==
    {t \in 0 .. Len(c_text.tokens) - 1 :
         c_text.tokens[t + 1].char_interval.end_pos
             - c_text.tokens[t + 1].char_interval.start_pos > c_budget}

\* no chunk yielded holds an over-budget token together with another token
NoOverBudgetTokenShares ==
    \A k \in DOMAIN c_chunks : \A t \in OverBudgetTokens :
        (c_chunks[k].start_index <= t /\ t < c_chunks[k].end_index)
            => c_chunks[k] = Interval(t, t + 1)

\* every over-budget token has been yielded as a chunk of its own, and the
\* iterator went on with the token behind it
OverBudgetTokensEmitted ==
    \A t \in OverBudgetTokens :
        \E k \in DOMAIN c_chunks :
            /\ c_chunks[k] = Interval(t, t + 1)
            /\ IF k < Len(c_chunks) THEN c_chunks[k + 1].start_index = t + 1
               ELSE c_pos = t + 1

\* the iterator stands still: the next call returns a chunk and leaves the
\* iterator as it is, so every later call returns that chunk again
Standstill ==
    /\ ~c_done
    /\ LET r == ChunkIterator_next(c_text, c_budget, c_pos, c_broken) IN
       /\ r # None
       /\ r.pos = c_pos
       /\ r.broken_sentence = c_broken

\* C23: every token longer than max_char_buffer is yielded as a chunk of
\* exactly that token, wherever it stands in its sentence, and the iterator
\* goes on with the token behind it; no over-budget token shares a chunk.
\* The iterator is deterministic, so a token is yielded in the end exactly
\* when it has been yielded once the iterator has ended or stands still.
C23_OverBudgetTokenAlone ==
    /\ NoOverBudgetTokenShares
    /\ (c_done \/ Standstill) => OverBudgetTokensEmitted

\* the chunk has tokens and its last token is the last token of a sentence
EndsAtSentenceEnd(chunk) ==
    /\ chunk.start_index < chunk.end_index
    /\ find_sentence_range(c_text.text, c_text.tokens,
                           chunk.end_index - 1).end_index = chunk.end_index

\* C24: a chunk yielded that ends at a sentence end and is not the last chunk
\* of the document cannot take the next whole sentence within the budget,
\* also when it completes a sentence that was cut before.
C24_FoldingIsMaximal ==
    \A k \in DOMAIN c_chunks :
        (EndsAtSentenceEnd(c_chunks[k]) /\ c_chunks[k].end_index < Len(c_text.tokens))
            => ChunkSpan(c_text,
                         Interval(c_chunks[k].start_index,
                                  SentenceIterator_next(c_text,
                                      c_chunks[k].end_index).end_index))
                   > c_budget

\* the chunk cannot take the sentence behind it within the budget
CannotTakeNextSentence(chunk) ==
    (EndsAtSentenceEnd(chunk) /\ chunk.end_index < Len(c_text.tokens))
        => ChunkSpan(c_text,
                     Interval(chunk.start_index,
                              SentenceIterator_next(c_text, chunk.end_index).end_index))
               > c_budget

\* C24 as the code has it: a chunk yielded by a call that finds
\* broken_sentence unset, that ends at a sentence end and is not the last
\* chunk of the document, cannot take the next whole sentence within the
\* budget; a call that finds broken_sentence set and reaches the end of the
\* sentence within the budget yields the rest of that sentence alone and
\* unsets broken_sentence.
C24_FoldingIsMaximalUnlessBroken ==
    [][ChunkYield
       => LET chunk == c_chunks'[Len(c_chunks')] IN
          /\ ~c_broken => CannotTakeNextSentence(chunk)
          /\ (c_broken /\ OverflowTokens = {})
                 => /\ chunk = Interval(c_pos, CurrentSentence.end_index)
                    /\ ~c_broken']_vars

\* C24 witness: the first chunk has folded a second sentence and stops in
\* front of a third one, which does not fit.
C24_Witness ==
    /\ c_chunks # <<>>
    /\ c_chunks[1].end_index < Len(c_text.tokens)
    /\ SentenceIterator_next(c_text, 0).end_index < c_chunks[1].end_index
    /\ EndsAtSentenceEnd(c_chunks[1])
    /\ CannotTakeNextSentence(c_chunks[1])

(***************************************************************************)
(* Further properties of the annotator call.                               *)
(***************************************************************************)
\* the number of batches that n chunks make
BatchCount(n, batch_length) == (n + batch_length - 1) \div batch_length

\* the infer calls the running single pass has issued: every pass before it
\* has ended well and has chunked the same documents
InferCallsOfPass ==
    hist.infer_calls - mp.pass_num * BatchCount(Len(sp.chunks), call.batch_length)

\* C25: within a single pass, one infer call is issued per batch, the next one
\* only after the outputs of every chunk of the batches before it have been
\* resolved, aligned and appended; the output consumed for a chunk is the top
\* output the adapter gave for the prompt of that chunk; a pass that returns
\* Ok has issued ceil(number of chunks / batch_length) infer calls.
C25_OneInferPerBatchInOrder ==
    /\ pc = "infer"
           => Len(sp.consumed) =
                  (IF InferCallsOfPass * call.batch_length <= Len(sp.chunks)
                   THEN InferCallsOfPass * call.batch_length ELSE Len(sp.chunks))
    /\ pc = "chunk"
           => InferCallsOfPass = Len(sp.consumed) \div call.batch_length + 1
    /\ pc \in {"infer", "chunk", "finalize"}
           => \A k \in DOMAIN sp.consumed :
                  [prompt |-> chunk_text_or_default(sp.chunks[k]),
                   outcome |-> [kind |-> "outputs", top |-> sp.consumed[k]]]
                      \in hist.calls
    /\ (pc = "single_pass_return" /\ IsOk(sp.returned))
           => InferCallsOfPass = BatchCount(Len(sp.chunks), call.batch_length)

\* C25 witness: a pass over two chunks in batches of one has returned Ok
\* after two infer calls, and the two chunks got different outputs.
C25_Witness ==
    /\ pc = "single_pass_return"
    /\ IsOk(sp.returned)
    /\ Len(sp.chunks) = 2
    /\ call.batch_length = 1
    /\ InferCallsOfPass = 2
    /\ Len(sp.consumed) = 2
    /\ sp.consumed[1] # sp.consumed[2]

RECURSIVE ResolvedOf(_)
\* what the resolver made of the replies consumed in the running pass, in the
\* order of the chunks (a reply that does not resolve gives nothing)
ResolvedOf(replies) ==
    IF replies = <<>> THEN <<>>
    ELSE LET r == resolve(DefaultResolver, Head(replies), PassDebug, <<1>>)
         IN  (IF IsOk(r) THEN r.ok ELSE <<>>) \o ResolvedOf(Tail(replies))

\* C30: the extractions the running pass has collected are, one by one and in
\* order, the extractions the resolver made of the replies consumed, with their
\* class, text, extraction_index, group_index and attributes; the annotated
\* documents a pass returns carry the text of an input document.
C30_OnlyLocationAdded ==
    /\ pc \in {"infer", "chunk", "finalize", "single_pass_return"}
           => /\ Len(sp.annotated_extractions) = Len(ResolvedOf(sp.consumed))
              /\ \A k \in DOMAIN sp.annotated_extractions :
                     LET out == sp.annotated_extractions[k]
                         in == ResolvedOf(sp.consumed)[k]
                     IN  /\ out.extraction_class = in.extraction_class
                         /\ out.extraction_text = in.extraction_text
                         /\ out.extraction_index = in.extraction_index
                         /\ out.group_index = in.group_index
                         /\ out.attributes = in.attributes
    /\ (pc = "single_pass_return" /\ IsOk(sp.returned))
           => \A k \in DOMAIN sp.returned.ok :
                  /\ k <= Len(call.documents)
                  /\ sp.returned.ok[k].text = call.documents[k].text
                  /\ \A j \in DOMAIN sp.returned.ok[k].extractions :
                         \E i \in DOMAIN sp.annotated_extractions :
                             sp.returned.ok[k].extractions[j] = sp.annotated_extractions[i]

(***************************************************************************)
(* Further properties of the resolver.                                     *)
(***************************************************************************)
\* the parsed reply of the resolve call, when it is an object whose
\* "extractions" value is an array of objects: that array; None otherwise
StructuredReply ==
    LET parsed == extract_and_parse_content(p_input.self, p_input.input_text) IN
    IF IsErr(parsed) \/ ~is_object(parsed.ok) THEN None
    ELSE LET extractions == get(parsed.ok.object, <<"extractions">>) IN
         IF extractions = None THEN None
         ELSE IF ~is_array(extractions.some) THEN None
         ELSE IF \E k \in DOMAIN extractions.some.array :
                     ~is_object(extractions.some.array[k])
         THEN None
         ELSE Some(extractions.some.array)

\* what one item of a structured reply stands for: class, text, and the
\* attributes and the explicit index it carries for the key
ItemExtractions(self, item) ==
    LET index_suffix == self.extraction_index_suffix.some
        attributes_suffix == self.extraction_attributes_suffix.some
        entry(class, key, value) ==
            [extraction_class |-> class,
             extraction_text |-> convert_to_text(value),
             attributes |-> get(item, key \o <<attributes_suffix>>),
             index |-> get(item, key \o <<index_suffix>>)]
    IN  IF contains_key(item, <<"extraction_class">>) /\ contains_key(item, <<"extraction_text">>)
        THEN {entry(get(item, <<"extraction_class">>).some.string, <<"extraction_text">>,
                    get(item, <<"extraction_text">>).some)}
        ELSE {entry(item[i].key, item[i].key, item[i].value) :
                  i \in {j \in DOMAIN item : /\ ~ends_with(item[j].key, attributes_suffix)
                                             /\ ~ends_with(item[j].key, index_suffix)}}

\* the extraction r is the one the entry e stands for
IsExtractionOf(r, e) ==
    /\ r.extraction_class = e.extraction_class
    /\ Ok(r.extraction_text) = e.extraction_text
    /\ r.attributes = e.attributes
    /\ e.index # None => JNumber(r.extraction_index) = e.index.some

RECURSIVE CountItemExtractions(_, _, _)
CountItemExtractions(self, arr, n) ==
    IF n = 0 THEN 0
    ELSE CountItemExtractions(self, arr, n - 1)
             + Cardinality(ItemExtractions(self, arr[n].object))

\* C26: a structured reply that resolves gives one extraction per key that
\* carries neither the attribute suffix nor the index suffix, with the key as
\* class, its value as text, the value of key + attribute suffix as attributes
\* and the value of key + index suffix as extraction_index; an item with
\* extraction_class and extraction_text gives exactly one extraction with
\* that class and text, also when it carries an index or attributes key.
C26_SuffixedKeysAreNoExtractions ==
    (Returned("resolve") /\ StructuredReply # None /\ IsOk(p_call.result))
    => LET arr == StructuredReply.some
           res == p_call.result.ok
       IN  /\ Len(res) = CountItemExtractions(p_input.self, arr, Len(arr))
           /\ \A k \in DOMAIN arr :
                  \A e \in ItemExtractions(p_input.self, arr[k].object) :
                      \E i \in DOMAIN res : IsExtractionOf(res[i], e)
           /\ \A i \in DOMAIN res :
                  \E k \in DOMAIN arr :
                      \E e \in ItemExtractions(p_input.self, arr[k].object) :
                          IsExtractionOf(res[i], e)

\* the top-level array of strings that the reply of the resolve call parses
\* to; None for any other reply
FlatArrayReply ==
    LET parsed == extract_and_parse_content(p_input.self, p_input.input_text) IN
    IF IsErr(parsed) \/ ~is_array(parsed.ok) THEN None
    ELSE IF \E k \in DOMAIN parsed.ok.array : ~is_string(parsed.ok.array[k]) THEN None
    ELSE Some(parsed.ok.array)

\* C28: resolving the same reply again with the same resolver gives the same
\* result, whatever the order in which the maps iterate in either call; a
\* flat array of several strings comes out in the order of the array, with
\* the classes text_0, text_1, ... and one group_index.
C28_ResolveIsDeterministic ==
    Returned("resolve")
    => /\ \A hash_order \in HashOrders :
              resolve(p_input.self, p_input.input_text, p_call.suppress_parse_errors,
                      hash_order) = p_call.result
       /\ (FlatArrayReply # None /\ Len(FlatArrayReply.some) > 1)
              => /\ IsOk(p_call.result)
                 /\ Len(p_call.result.ok) = Len(FlatArrayReply.some)
                 /\ \A k \in DOMAIN FlatArrayReply.some :
                        /\ p_call.result.ok[k].extraction_text = FlatArrayReply.some[k].string
                        /\ p_call.result.ok[k].extraction_class = <<"text_", ToString(k - 1)>>
                        /\ p_call.result.ok[k].group_index = p_call.result.ok[1].group_index

(***************************************************************************)
(* Further properties of the tokenizer.                                    *)
(***************************************************************************)
\* the text is made of alphanumeric runs joined by "/"
IsSlashChain(s) ==
    /\ \E k \in DOMAIN s : s[k] = "/"
    /\ \A k \in DOMAIN s : s[k] \in AlnumChars \cup {"/"}
    /\ s[1] # "/"
    /\ s[Len(s)] # "/"
    /\ \A k \in 1 .. Len(s) - 1 : ~(s[k] = "/" /\ s[k + 1] = "/")

\* the class the stated classes give a token text
StatedClass(s) ==
    IF IsSlashChain(s) THEN "Acronym"
    ELSE IF \A k \in DOMAIN s : s[k] \in DigitChars THEN "Number"
    ELSE IF \A k \in DOMAIN s : s[k] \in LetterChars THEN "Word"
    ELSE IF \A k \in DOMAIN s : s[k] \in CJKChars THEN "Word"
    ELSE "Punctuation"

\* C29: every token of tokenize(t) has the class of its text: Acronym for
\* alphanumeric runs joined by "/" (with or without digits), Number for a
\* digit run, Word for a run of Latin letters or of ideographs, Punctuation
\* for any other run.
C29_TokenClasses ==
    Returned("tokenize") =>
        \A k \in DOMAIN p_call.result.tokens :
            p_call.result.tokens[k].token_type
                = StatedClass(TokenText(p_input, p_call.result.tokens, k - 1))

(***************************************************************************)
(* The prompt of one chunk: QAPromptGenerator::render_with_context called  *)
(* with any context, and the prompt the annotator renders for a chunk of a *)
(* document with or without additional context.                            *)
(***************************************************************************)
\* generators made by QAPromptGenerator::new from a template with up to two
\* examples, in both formats, fenced or not
PromptGenerators ==
    LET ex1 == [text |-> <<"q">>, extractions |-> <<>>]
        ex2 == [text |-> <<"r">>,
                extractions |-> <<[extraction_class |-> <<"a">>, extraction_text |-> <<"x">>,
                                   attributes |-> None]>>]
    IN  [template : [description : {<<"d">>}, examples : {<<>>, <<ex1>>, <<ex1, ex2>>}],
         format_type : {"YAML", "JSON"}, attribute_suffix : {"_attributes"},
         examples_heading : {"Examples"}, question_prefix : {"Q: "},
         answer_prefix : {"A: "}, fence_output : BOOLEAN]

\* None, an empty and a non-empty additional context
Contexts == {None, Some(<<>>), Some(<<"c">>)}

\* the chunks of a document "a A" that carries a context
ContextChunks ==
    {[token_interval |-> Interval(i.s, i.e),
      document |-> [text |-> <<"a", " ", "A">>, document_id |-> Some("a"),
                    additional_context |-> c]] :
         i \in {[s |-> 0, e |-> 1], [s |-> 1, e |-> 2], [s |-> 0, e |-> 2]}, c \in Contexts}

PromptInit ==
    /\ p_input \in [op : {"render_with_context"}, self : PromptGenerators,
                    question : {<<>>, <<"a">>}, additional_context : Contexts]
                       \cup [op : {"batch_prompt"}, self : PromptGenerators,
                             text_chunk : ContextChunks]
    /\ p_call = None
    /\ ChunkIdle
    /\ MergeIdle
    /\ AnnIdle

RenderWithContext ==
    /\ p_call = None
    /\ p_input.op = "render_with_context"
    /\ p_call' = [op |-> "render_with_context",
                  result |-> render_with_context(p_input.self, p_input.question,
                                                 p_input.additional_context)]
    /\ UNCHANGED <<p_input, notPureVars>>

BatchPrompt ==
    /\ p_call = None
    /\ p_input.op = "batch_prompt"
    /\ p_call' = [op |-> "batch_prompt",
                  result |-> batch_prompt(p_input.self, p_input.text_chunk)]
    /\ UNCHANGED <<p_input, notPureVars>>

PromptNext == RenderWithContext \/ BatchPrompt

SpecPrompt == PromptInit /\ [][PromptNext]_vars

(***************************************************************************)
(* Properties of the prompt.                                               *)
(***************************************************************************)
\* the section occurs in the prompt from piece i on
OccursAt(section, prompt, i) ==
    /\ i + Len(section) - 1 <= Len(prompt)
    /\ SubSeq(prompt, i, i + Len(section) - 1) = section

\* the sections occur in the prompt one behind the other, in this order,
\* from piece i on
RECURSIVE InOrderFrom(_, _, _)
InOrderFrom(sections, prompt, i) ==
    IF sections = <<>> THEN TRUE
    ELSE \E j \in i .. Len(prompt) :
             /\ OccursAt(Head(sections), prompt, j)
             /\ InOrderFrom(Tail(sections), prompt, j + Len(Head(sections)))

\* the sections of a prompt of the generator for a question and a context
\* that is not empty: description, context, examples heading and the
\* question and answer of every example (when there are examples),
\* question prefix and question, answer prefix
PromptSections(self, question, ctx) ==
    <<<<Str(self.template.description)>>, <<Str(ctx)>>>>
        \o (IF self.template.examples = <<>> THEN <<>>
            ELSE <<<<Lit(self.examples_heading)>>>>
                     \o concat([k \in DOMAIN self.template.examples |->
                                   <<<<Lit(self.question_prefix),
                                       Str(self.template.examples[k].text)>>,
                                     <<Lit(self.answer_prefix)>>>>]))
        \o <<<<Lit(self.question_prefix), Str(question)>>, <<Lit(self.answer_prefix)>>>>

\* C27: the prompt rendered for a chunk of a document with a non-empty
\* additional context holds that context, behind the description and in
\* front of the examples; the sections stand in the order description,
\* context, examples heading, example blocks, question prefix and chunk
\* text, answer prefix.
C27_PromptCarriesContext ==
    /\ (Returned("batch_prompt")
            /\ p_input.text_chunk.document.additional_context \notin {None, Some(<<>>)})
       => InOrderFrom(PromptSections(p_input.self,
                                     chunk_text_or_default(p_input.text_chunk),
                                     p_input.text_chunk.document.additional_context.some),
                      p_call.result, 1)
    /\ (Returned("render_with_context")
            /\ p_input.additional_context \notin {None, Some(<<>>)})
       => InOrderFrom(PromptSections(p_input.self, p_input.question,
                                     p_input.additional_context.some),
                      p_call.result, 1)

====
